---- MODULE Spec2Model ----
(***************************************************************************)
(* Model of the PrivateRAG backend's wallet authentication:                *)
(*   routers/auth.py      create_nonce, verify_signature                   *)
(*   auth_utils.py        get_current_wallet                               *)
(*   user_repository.py   UserRepository.create / find_by_wallet_address / *)
(*                        delete                                           *)
(*   routers/users.py     create_user, delete_user                         *)
(*                                                                         *)
(* Strings are tuples of one-character strings, so that str.lower() is a   *)
(* real character-wise function.  Time is counted in ticks of              *)
(* 1/TicksPerSecond seconds, so that the truncation of the JWT exp claim   *)
(* to whole seconds is visible.                                            *)
(*                                                                         *)
(* verify_signature is an async handler: everything up to its first await  *)
(* (lines 80-110) is one step, and each database operation after it        *)
(* (find, insert, delete + mint) is a step of its own, so two requests     *)
(* interleave exactly where the event loop lets them.                      *)
(***************************************************************************)
EXTENDS Integers, Sequences, FiniteSets, TLC

\* ------------------------------------------------------------- bounds
MaxNonces == 2        \* create_nonce calls in one behaviour
MaxAdvances == 2      \* clock advances in one behaviour
MaxRegistrations == 1 \* POST /users calls in one behaviour
TicksPerSecond == 2   \* clock resolution

\* --------------------------------------------------- program constants
NONCE_TTL_SECONDS == 300
TOKEN_HOURS == 12

Reqs == {"r1", "r2"}  \* concurrently running verify_signature requests

\* ------------------------------------------------------------ strings
LowerChar(c) ==
    CASE c = "A" -> "a"
      [] c = "B" -> "b"
      [] c = "C" -> "c"
      [] c = "D" -> "d"
      [] OTHER -> c

\* str.lower()
Lower(s) == [i \in DOMAIN s |-> LowerChar(s[i])]

EmptyStr == <<>>

\* The addresses of the two key pairs, in the checksum (mixed) casing that
\* Account.recover_message returns.
AliceAddr == <<"A", "b">>
BobAddr == <<"C", "d">>
Keys == {AliceAddr, BobAddr}
\* What ECDSA recovery yields for a signature made over another message: an
\* address that belongs to no key pair anyone holds.
StrayAddr == <<"9", "9">>

\* wallet_address values clients send: Alice's address in two casings.  Bob
\* takes part as a signer and as a registered user.
WalletInputs == {AliceAddr, Lower(AliceAddr)}

\* ---------------------------------------------------------------- time
Seconds(n) == n * TicksPerSecond

\* datetime.isoformat() / datetime.fromisoformat(): lossless for the naive
\* datetimes the code stores (microseconds are kept).
Isoformat(t) == <<"iso", t>>
FromIsoformat(s) == s[2]

\* jwt's timegm(dt.utctimetuple()): whole seconds, the fraction dropped
Timegm(t) == t \div TicksPerSecond

Delays == {1, Seconds(NONCE_TTL_SECONDS), Seconds(TOKEN_HOURS * 3600) - 1}

\* ---------------------------------------------------------- signatures
\* _build_login_message
BuildLoginMessage(wallet, nonce) ==
    <<"Login to PrivateRAG with wallet ", wallet, ". Nonce: ", nonce>>

Malformed == [wf |-> FALSE, signer |-> EmptyStr, msg |-> <<>>]
Sign(key, msg) == [wf |-> TRUE, signer |-> key, msg |-> msg]

RecoverError == <<"!">>
\* Account.recover_message(encode_defunct(text=message), signature=sig)
RecoverMessage(message, sig) ==
    IF ~sig.wf THEN RecoverError
    ELSE IF sig.msg = message THEN sig.signer
    ELSE StrayAddr

\* ------------------------------------------------------------- tokens
ServerSecret == "server-secret"
NoToken == [wf |-> FALSE, key |-> "", hasSub |-> FALSE, sub |-> EmptyStr,
            hasExp |-> FALSE, exp |-> 0]

\* jwt.encode({"sub": wallet, "exp": utcnow() + 12h}, secret, HS256)
MintExpOneHour(t) == Timegm(t + Seconds(3600))
MintExp(t) == Timegm(t + Seconds(TOKEN_HOURS * 3600))
MintToken(wallet, t) ==
    [wf |-> TRUE, key |-> ServerSecret, hasSub |-> TRUE, sub |-> wallet,
     hasExp |-> TRUE, exp |-> MintExp(t)]

VARIABLES
    now,        \* datetime.utcnow(), in ticks
    advances,   \* clock advances so far
    nonces,     \* rows of table nonces
    nextNonce,  \* the next value secrets.token_hex yields (fresh every call)
    users,      \* rows of table users
    nextId,     \* the users.id sequence
    regs,       \* POST /users calls so far
    req,        \* the verify_signature requests past their first await
    latest,     \* history: latest[w] is the nonce issued last to wallet w
    uses,       \* history: uses[n] counts the credentials issued on nonce n
    lastOk,     \* history: lastOk[w] is the signature of wallet w's latest
                \* successful verify, while no nonce was issued to w since
    held,       \* history: a credential a client holds, with its time of issue
    solo,       \* history: solo[w] is the nonce table as the calls for wallet w
                \* alone make it
    nova,       \* the blobs the Nova service holds
    user_metadata, \* column metadata (JSONB) of table users, by users.id
    mreq,       \* the update_metadata calls between their two statements
    vaults,     \* rows of table vaults
    vreq,       \* the vault requests between their SELECT and their commit
    docs,       \* rows of table documents
    dreq,       \* the upload_document requests past DocumentRepository.create
    token_cache, \* nova_storage._token_cache
    treq,       \* the _get_session_token calls waiting for the auth service
    conn_string, \* AsyncPostgresClient.conn_string
    initialized, \* AsyncPostgresClient.initialized
    pool,       \* AsyncPostgresClient.pool
    lock,       \* the task holding AsyncPostgresClient._initialization_lock
    task,       \* the initialize and get_connection calls at their awaits
    pools,      \* the pools asyncpg.create_pool made that are not closed
    made,       \* the pools asyncpg.create_pool made so far
    sinceClose, \* history: the pools made since close was called last
    last_login, \* column last_login of table users, by users.id
    lreq,       \* the login_user requests between their statements
    last        \* the request that has just been handled, and its response

clock == <<now, advances>>
db == <<nonces, users, nextId, regs>>
ghost == <<latest, uses, lastOk, held, solo>>
vars == <<now, advances, nonces, nextNonce, users, nextId, regs, req, latest,
          uses, lastOk, held, solo, nova, user_metadata,
          mreq, vaults, vreq, docs, dreq, token_cache, treq, conn_string,
          initialized, pool, lock, task, pools, made, sinceClose, last_login,
          lreq, last>>

\* The state of the login protocol, and the state of each other service
authVars == <<clock, db, nextNonce, req, ghost>>
metaVars == <<user_metadata, mreq>>
vaultVars == <<vaults, vreq>>
docVars == <<docs, dreq>>
tokenVars == <<token_cache, treq>>
pgVars == <<conn_string, initialized, pool, lock, task, pools, made,
            sinceClose>>
loginVars == <<last_login, lreq>>
services == <<metaVars, vaultVars, docVars, tokenVars, pgVars, loginVars>>
otherThanMeta == <<authVars, nova, vaultVars, docVars, tokenVars, pgVars,
                   loginVars>>
otherThanVaults == <<authVars, nova, metaVars, docVars, tokenVars, pgVars,
                     loginVars>>
otherThanDocs == <<authVars, nova, metaVars, vaultVars, tokenVars, pgVars,
                   loginVars>>
otherThanToken == <<db, nextNonce, req, ghost, nova, metaVars, vaultVars,
                    docVars, pgVars, loginVars>>
otherThanPg == <<authVars, nova, metaVars, vaultVars, docVars, tokenVars,
                 loginVars>>
otherThanLogin == <<authVars, nova, metaVars, vaultVars, docVars, tokenVars,
                    pgVars>>

\* -------------------------------------------------------- nonce store
\* A row of table nonces: wallet_address, nonce, expires_at, and t0, a history
\* field that is no column: the time of the create_nonce call that wrote it.
NonceRow(wallet, nonce, expires_at, t0) ==
    [wallet_address |-> wallet, nonce |-> nonce, expires_at |-> expires_at,
     t0 |-> t0]

\* supabase .select("*").eq("wallet_address", w).single(): data is the row
\* when exactly one row matches, and there is no data otherwise.
SelectSingle(tbl, w) ==
    LET m == {row \in tbl : row.wallet_address = w}
    IN IF Cardinality(m) = 1 THEN m ELSE {}

\* .upsert(row, on_conflict="wallet_address"); wallet_address is the primary key
UpsertNoConflict(tbl, row) == tbl \cup {row}
Upsert(tbl, row) ==
    {x \in tbl : x.wallet_address # row.wallet_address} \cup {row}

\* .delete().eq("wallet_address", w)
DeleteKeep(tbl, w) == tbl
DeleteEveryRow(tbl, w) == {}
DeleteNonce(tbl, w) == {row \in tbl : row.wallet_address # w}

\* expires_at < datetime.utcnow()
NeverExpired(expires_at, t) == FALSE
NonceExpired(expires_at, t) == expires_at < t

\* recovered.lower() != wallet
AnyWallet(recovered, wallet) == TRUE
WalletMatches(recovered, wallet) == Lower(recovered) = wallet

Reject(detail) == [status |-> 400, detail |-> detail, nonce |-> 0]
Pass(nonce) == [status |-> 0, detail |-> "", nonce |-> nonce]

\* verify_signature up to its first await: the nonce row is loaded and the
\* signature is checked against it at time t.  status 0: every check passed.
VerifyChecks(wallet_in, sig, tbl, t) ==
    LET wallet == Lower(wallet_in)
        data == SelectSingle(tbl, wallet)
    IN  IF data = {} THEN Reject("Nonce not found")
        ELSE
        LET nonce_row == CHOOSE x \in data : TRUE
            nonce == nonce_row.nonce
            expires_raw == nonce_row.expires_at
        IN  IF nonce < 1 \/ expires_raw = EmptyStr
            THEN Reject("Invalid nonce record")
            ELSE IF expires_raw[1] # "iso" THEN Reject("Invalid nonce expiry")
            ELSE IF NonceExpired(FromIsoformat(expires_raw), t)
            THEN Reject("Nonce expired")
            ELSE
            LET recovered == RecoverMessage(BuildLoginMessage(wallet, nonce), sig)
            IN  IF recovered = RecoverError THEN Reject("Invalid signature")
                ELSE IF ~WalletMatches(recovered, wallet)
                THEN Reject("Signature does not match wallet")
                ELSE Pass(nonce)

\* --------------------------------------------------------- user store
NullStr == <<"NULL">>
Bcrypt(password) == <<"$2b$", password>>

UserRow(id, wallet_address, username, password_hash, email, metadata) ==
    [id |-> id, wallet_address |-> wallet_address, username |-> username,
     password_hash |-> password_hash, email |-> email, metadata |-> metadata]

\* The constraints on wallet_address and username alone
ViolationIgnoringEmail(tbl, wallet_address, username, email) ==
    IF \E u \in tbl : u.wallet_address = wallet_address
    THEN "Wallet address already exists"
    ELSE IF \E u \in tbl : u.username = username
    THEN "Username already exists"
    ELSE ""

\* The unique constraint of table users an INSERT of these values violates,
\* as UserRepository.create names it ("" when none; NULL emails never collide).
UniqueViolation(tbl, wallet_address, username, email) ==
    IF \E u \in tbl : u.wallet_address = wallet_address
    THEN "Wallet address already exists"
    ELSE IF \E u \in tbl : u.username = username
    THEN "Username already exists"
    ELSE IF email # NullStr /\ \E u \in tbl : u.email = email
    THEN "Email already exists"
    ELSE ""

\* UserRepository.find_by_wallet_address (an exact, case-sensitive match)
FindByWalletAddress(tbl, wallet_address) ==
    {u \in tbl : u.wallet_address = wallet_address}

\* UserRepository.delete
DeleteFrom(tbl, id) == {u \in tbl : u.id # id}

\* -------------------------------------------------- get_current_wallet
\* jwt.decode(token, secret, algorithms=["HS256"]) at time t: TRUE when it
\* raises (bad format, bad signature, or an exp claim that is not in the future)
DecodeIgnoresExp(token, secret, t) == ~token.wf \/ token.key # secret
DecodeRaises(token, secret, t) ==
    \/ ~token.wf
    \/ token.key # secret
    \/ token.hasExp /\ Seconds(token.exp) <= t

Unauthorized(detail) == [status |-> 401, detail |-> detail, wallet |-> EmptyStr]

GetCurrentWallet(token, t) ==
    IF DecodeRaises(token, ServerSecret, t)
    THEN Unauthorized("Invalid or expired token")
    ELSE IF ~token.hasSub \/ token.sub = EmptyStr
    THEN Unauthorized("Invalid token payload")
    ELSE [status |-> 200, detail |-> "", wallet |-> Lower(token.sub)]

\* -------------------------------------------------------------- vaults
\* Optional[str] = None
NoSignature == "<None>"
NoVault == [id |-> 0, owner_wallet |-> EmptyStr, doc_hash |-> "",
            title |-> "", encrypted_toc |-> "", toc_signature |-> NoSignature]
NoVaultRequest == [owner_wallet |-> EmptyStr, doc_hash |-> "", title |-> "",
                   encrypted_toc |-> "", toc_signature |-> NoSignature]
VIdle == [pc |-> "idle", op |-> "", request |-> NoVaultRequest,
          vault |-> NoVault]

\* login_user: no request in flight
NoUser == [id |-> 0, wallet_address |-> EmptyStr, username |-> EmptyStr,
           password_hash |-> EmptyStr, email |-> EmptyStr, metadata |-> ""]
LIdle == [pc |-> "idle", username |-> EmptyStr, password |-> "",
          user_data |-> NoUser]

\* AsyncPostgresClient: pool None, the lock free, a task in no call
NoPool == 0
Unlocked == ""
PIdle == [pc |-> "idle", within |-> "", attempt |-> 0, ref |-> NoPool]

\* _token_cache: None, or the dict
NoCache == [token |-> "<None>", expires_at |-> 0]

\* ----------------------------------------------------------- documents
DIdle == [pc |-> "idle", id |-> 0, wallet |-> EmptyStr, error |-> ""]

\* ------------------------------------------------------ request state
Idle == [pc |-> "idle", wallet_in |-> EmptyStr, wallet |-> EmptyStr,
         sig |-> Malformed, nonce |-> 0]

NoCall == [op |-> "none", wallet_in |-> EmptyStr, wallet |-> EmptyStr,
           sig |-> Malformed, status |-> 0, detail |-> "", error |-> "",
           nonce |-> 0, token |-> NoToken]

\* ---------------------------------------------------------------- Init
Init ==
    /\ now = 0
    /\ advances = 0
    /\ nonces = {}
    /\ nextNonce = 1
    /\ users = {}
    /\ nextId = 1
    /\ regs = 0
    /\ req = [r \in Reqs |-> Idle]
    /\ latest = [w \in {} |-> 0]
    /\ uses = [n \in {} |-> 0]
    /\ lastOk = [w \in {} |-> Malformed]
    /\ held = {}
    /\ solo = [w \in {} |-> {}]
    /\ nova = {}
    /\ user_metadata = [id \in {} |-> <<>>]
    /\ mreq = [r \in Reqs |-> [pc |-> "idle", id |-> 0, update |-> <<>>,
                             current |-> <<>>]]
    /\ vaults = {}
    /\ vreq = [r \in Reqs |-> VIdle]
    /\ docs = {}
    /\ dreq = [r \in Reqs |-> DIdle]
    /\ token_cache = NoCache
    /\ treq = [r \in Reqs |-> "idle"]
    /\ conn_string = "dsn"
    /\ initialized = FALSE
    /\ pool = NoPool
    /\ lock = Unlocked
    /\ task = [r \in Reqs |-> PIdle]
    /\ pools = {}
    /\ made = 0
    /\ sinceClose = 0
    /\ last_login = [id \in {} |-> 0]
    /\ lreq = [r \in Reqs |-> LIdle]
    /\ last = NoCall

\* The clock moves on.
Advance(d) ==
    /\ advances < MaxAdvances
    /\ now' = now + d
    /\ advances' = advances + 1
    /\ last' = NoCall
    /\ UNCHANGED <<services, nova, db, nextNonce, req, ghost>>

\* POST /auth/nonce
create_nonce(wallet_address) ==
    /\ nextNonce <= MaxNonces
    /\ LET wallet == Lower(wallet_address)
           nonce == nextNonce
           expires_at == Isoformat(now + Seconds(NONCE_TTL_SECONDS))
       IN  /\ nonces' = Upsert(nonces, NonceRow(wallet, nonce, expires_at, now))
           /\ latest' = [w \in DOMAIN latest \cup {wallet} |->
                           IF w = wallet THEN nonce ELSE latest[w]]
           /\ uses' = [n \in DOMAIN uses \cup {nonce} |->
                         IF n = nonce THEN 0 ELSE uses[n]]
           /\ lastOk' = [w \in DOMAIN lastOk \ {wallet} |-> lastOk[w]]
           /\ solo' = [w \in DOMAIN solo \cup {wallet} |->
                         IF w # wallet THEN solo[w]
                         ELSE Upsert(IF w \in DOMAIN solo THEN solo[w] ELSE {},
                                     NonceRow(wallet, nonce, expires_at, now))]
           /\ last' = [NoCall EXCEPT !.op = "nonce", !.wallet_in = wallet_address,
                                     !.wallet = wallet, !.status = 200,
                                     !.nonce = nonce]
    /\ nextNonce' = nextNonce + 1
    /\ UNCHANGED <<services, nova, clock, users, nextId, regs, req, held>>

\* The nonce table after a rejected verify: every check raises before any
\* write
BurnOnRejection(tbl, wallet) == DeleteNonce(tbl, wallet)
AfterRejection(tbl, wallet) == tbl

\* POST /auth/verify, a request one of the checks of lines 83-110 rejects
VerifyReject(wallet_in, sig) ==
    LET res == VerifyChecks(wallet_in, sig, nonces, now)
    IN  /\ res.status # 0
        /\ nonces' = AfterRejection(nonces, Lower(wallet_in))
        /\ last' = [NoCall EXCEPT !.op = "verify", !.wallet_in = wallet_in,
                                  !.wallet = Lower(wallet_in), !.sig = sig,
                                  !.status = res.status, !.detail = res.detail]
        /\ UNCHANGED <<services, nova, clock, users, nextId, regs, nextNonce,
                       req, ghost>>

\* POST /auth/verify, a request that passes the checks and reaches the await
\* of find_by_wallet_address
VerifyAccept(r, wallet_in, sig) ==
    LET res == VerifyChecks(wallet_in, sig, nonces, now)
    IN  /\ req[r].pc = "idle"
        /\ res.status = 0
        /\ req' = [req EXCEPT ![r] = [pc |-> "find", wallet_in |-> wallet_in,
                                      wallet |-> Lower(wallet_in), sig |-> sig,
                                      nonce |-> res.nonce]]
        /\ last' = [NoCall EXCEPT !.op = "verify", !.wallet_in = wallet_in,
                                  !.wallet = Lower(wallet_in), !.sig = sig,
                                  !.status = 0, !.nonce = res.nonce]
        /\ UNCHANGED <<services, nova, clock, db, nextNonce, ghost>>

\* existing = await UserRepository.find_by_wallet_address(wallet)
VerifyFind(r) ==
    /\ req[r].pc = "find"
    /\ req' = [req EXCEPT ![r].pc =
                 IF FindByWalletAddress(users, req[r].wallet) # {}
                 THEN "consume" ELSE "create"]
    /\ last' = NoCall
    /\ UNCHANGED <<services, nova, clock, db, nextNonce, ghost>>

\* await UserRepository.create(wallet_address=wallet, username=wallet,
\* password_hash="", ...): the row is inserted
VerifyCreate(r) ==
    /\ req[r].pc = "create"
    /\ UniqueViolation(users, req[r].wallet, req[r].wallet, NullStr) = ""
    /\ users' = users \cup {UserRow(nextId, req[r].wallet, req[r].wallet,
                                    EmptyStr, NullStr, "auth=wallet")}
    /\ nextId' = nextId + 1
    /\ req' = [req EXCEPT ![r].pc = "consume"]
    /\ last' = NoCall
    /\ UNCHANGED <<services, nova, clock, nonces, regs, nextNonce, ghost>>

\* ... or the INSERT violates a unique constraint: create raises ValueError,
\* which verify_signature does not catch, and the request ends in a 500.
VerifyCreateFails(r) ==
    /\ req[r].pc = "create"
    /\ UniqueViolation(users, req[r].wallet, req[r].wallet, NullStr) # ""
    /\ req' = [req EXCEPT ![r] = Idle]
    /\ last' = [NoCall EXCEPT !.op = "verify", !.wallet_in = req[r].wallet_in,
                  !.wallet = req[r].wallet, !.sig = req[r].sig,
                  !.status = 500, !.detail = "Internal Server Error",
                  !.error = UniqueViolation(users, req[r].wallet, req[r].wallet,
                                            NullStr),
                  !.nonce = req[r].nonce]
    /\ UNCHANGED <<services, nova, clock, db, nextNonce, ghost>>

\* the nonce row is deleted, the JWT is issued and returned; the client keeps
\* the credential or lets it go
VerifyConsume(r) ==
    /\ req[r].pc = "consume"
    /\ nonces' = DeleteNonce(nonces, req[r].wallet)
    /\ LET token == MintToken(req[r].wallet, now)
       IN  /\ \/ held' = {[token |-> token, at |-> now]}
               \/ held' = held
           /\ last' = [NoCall EXCEPT !.op = "verify",
                         !.wallet_in = req[r].wallet_in,
                         !.wallet = req[r].wallet, !.sig = req[r].sig,
                         !.status = 200, !.nonce = req[r].nonce,
                         !.token = token]
    /\ uses' = [uses EXCEPT ![req[r].nonce] = @ + 1]
    /\ lastOk' = [w \in DOMAIN lastOk \cup {req[r].wallet} |->
                    IF w = req[r].wallet THEN req[r].sig ELSE lastOk[w]]
    /\ solo' = [solo EXCEPT ![req[r].wallet] = DeleteNonce(@, req[r].wallet)]
    /\ req' = [req EXCEPT ![r] = Idle]
    /\ UNCHANGED <<services, nova, clock, nextNonce, users, nextId, regs,
                   latest>>

\* POST /users/: the password is hashed and UserRepository.create inserts the
\* row, or raises ValueError (a 400) on a unique violation
create_user(wallet_address, username, password) ==
    /\ regs < MaxRegistrations
    /\ regs' = regs + 1
    /\ LET bad == UniqueViolation(users, wallet_address, username, NullStr)
       IN  IF bad = ""
           THEN /\ users' = users \cup {UserRow(nextId, wallet_address, username,
                                               Bcrypt(password), NullStr, "null")}
                /\ nextId' = nextId + 1
                /\ last' = [NoCall EXCEPT !.op = "create_user", !.status = 201,
                                          !.wallet = wallet_address]
           ELSE /\ UNCHANGED <<users, nextId>>
                /\ last' = [NoCall EXCEPT !.op = "create_user", !.status = 400,
                                          !.wallet = wallet_address,
                                          !.detail = bad, !.error = bad]
    /\ UNCHANGED <<services, nova, clock, nonces, nextNonce, req, ghost>>

\* DELETE /users/{user_id}
delete_user(user_id) ==
    /\ \E u \in users : u.id = user_id
    /\ users' = DeleteFrom(users, user_id)
    /\ last' = [NoCall EXCEPT !.op = "delete_user", !.status = 200]
    /\ UNCHANGED <<services, nova, clock, nonces, nextId, regs, nextNonce,
                   req, ghost>>

\* An owner-scoped request: Depends(get_current_wallet) on a bearer token
Authenticate(token) ==
    /\ LET res == GetCurrentWallet(token, now)
       IN  last' = [NoCall EXCEPT !.op = "auth", !.token = token,
                                  !.status = res.status, !.detail = res.detail,
                                  !.wallet = res.wallet]
    /\ UNCHANGED <<services, nova, clock, db, nextNonce, req, ghost>>

\* ------------------------------------------------------------- inputs
\* The key pair a wallet address belongs to, and the other one
KeyOf(w) == CHOOSE k \in Keys : Lower(k) = Lower(w)
OtherKey(w) == CHOOSE k \in Keys : Lower(k) # Lower(w)

\* The signatures a client presents with wallet_address w: bytes that are no
\* signature; the wallet's own signature over the login message of a nonce
\* issued so far; another key holder's signature over the login message of
\* the newest nonce; the wallet's own signature over a login message that
\* spells the address as the client does.
Signatures(w) ==
    {Malformed}
    \cup {Sign(KeyOf(w), BuildLoginMessage(Lower(w), n)) : n \in 1..(nextNonce - 1)}
    \cup {Sign(k, BuildLoginMessage(a, n)) :
            k \in {OtherKey(w)}, a \in {Lower(w)}, n \in {nextNonce - 1} \ {0}}
    \cup {Sign(k, BuildLoginMessage(a, n)) :
            k \in {KeyOf(w)}, a \in {w}, n \in {nextNonce - 1} \ {0}}

\* The accounts POST /users registers: Alice under her checksum-cased address,
\* and someone else under a username spelt like Alice's lowercased address.
Registrations ==
    {[wallet_address |-> AliceAddr, username |-> <<"a", "l">>],
     [wallet_address |-> BobAddr, username |-> Lower(AliceAddr)]}

\* The bearer tokens a client presents: a credential it holds; that
\* credential re-signed with another key, cut short, or with its claims
\* changed (no sub, an empty sub, a sub in another casing, no exp).
BearerTokens ==
    UNION {{h.token,
            [h.token EXCEPT !.key = "other-secret"],
            [h.token EXCEPT !.wf = FALSE],
            [h.token EXCEPT !.hasSub = FALSE, !.sub = EmptyStr],
            [h.token EXCEPT !.sub = EmptyStr],
            [h.token EXCEPT !.sub = KeyOf(h.token.sub)],
            [h.token EXCEPT !.hasExp = FALSE, !.exp = 0]} : h \in held}

\* ------------------------------------------------------- python values
\* The values a tree is made of: str, int, None, and dict as the sequence of
\* its (key, value) items in insertion order.
PyNone == [t |-> "none"]
PyStr(s) == [t |-> "str", s |-> s]
PyInt(n) == [t |-> "int", n |-> n]
PyDict(items) == [t |-> "dict", items |-> items]

\* Python truthiness: `not tree`
Falsy(v) ==
    \/ v.t = "none"
    \/ v.t = "dict" /\ v.items = <<>>
    \/ v.t = "str" /\ v.s = ""
    \/ v.t = "int" /\ v.n = 0

\* ---------------------------------------------------------------- json
\* A text is a sequence of lexemes.  JSON text is made of the lexemes below;
\* a scalar lexeme stands for one character of the base64 alphabet between
\* JSON punctuation, which is outside that alphabet.
LBrace == [k |-> "{"]
RBrace == [k |-> "}"]
Colon == [k |-> ":"]
Comma == [k |-> ","]
StrLex(s) == [k |-> "str", s |-> s]
IntLex(n) == [k |-> "int", n |-> n]
NullLex == [k |-> "null"]
\* a character outside ASCII that is no part of a JSON text
NonAsciiLex == [k |-> "nonascii"]
\* a one-letter string outside ASCII (U+00E9), which
\* json.dumps(ensure_ascii=False) emits as it is
NonAsciiLetter == "U+00E9"

RECURSIVE JsonDumps(_), DumpItems(_)
\* json.dumps(value, ensure_ascii=False)
JsonDumps(v) ==
    CASE v.t = "str" -> <<StrLex(v.s)>>
      [] v.t = "int" -> <<IntLex(v.n)>>
      [] v.t = "none" -> <<NullLex>>
      [] v.t = "dict" -> <<LBrace>> \o DumpItems(v.items) \o <<RBrace>>

DumpItems(items) ==
    IF items = <<>> THEN <<>>
    ELSE <<StrLex(items[1][1]), Colon>> \o JsonDumps(items[1][2])
         \o (IF Len(items) > 1 THEN <<Comma>> \o DumpItems(Tail(items))
             ELSE <<>>)

ParseFail == [ok |-> FALSE, v |-> PyNone, rest |-> <<>>]
Parsed(v, rest) == [ok |-> TRUE, v |-> v, rest |-> rest]

RECURSIVE ParseValue(_), ParseItems(_, _)
\* the JSON decoder: one value off the front of the lexemes
ParseValue(lx) ==
    IF lx = <<>> THEN ParseFail
    ELSE CASE lx[1].k = "str" -> Parsed(PyStr(lx[1].s), Tail(lx))
           [] lx[1].k = "int" -> Parsed(PyInt(lx[1].n), Tail(lx))
           [] lx[1].k = "null" -> Parsed(PyNone, Tail(lx))
           [] lx[1].k = "{" ->
                IF Len(lx) > 1 /\ lx[2].k = "}"
                THEN Parsed(PyDict(<<>>), Tail(Tail(lx)))
                ELSE ParseItems(Tail(lx), <<>>)
           [] OTHER -> ParseFail

\* the members of an object: "key" : value, then "," or "}"
ParseItems(lx, acc) ==
    IF Len(lx) < 3 \/ lx[1].k # "str" \/ lx[2].k # ":" THEN ParseFail
    ELSE LET val == ParseValue(Tail(Tail(lx)))
         IN  IF ~val.ok \/ val.rest = <<>> THEN ParseFail
             ELSE LET items == Append(acc, <<lx[1].s, val.v>>)
                  IN  CASE val.rest[1].k = "}" ->
                             Parsed(PyDict(items), Tail(val.rest))
                        [] val.rest[1].k = "," -> ParseItems(Tail(val.rest), items)
                        [] OTHER -> ParseFail

\* An outcome of a step inside a try block: a value, or the exception raised
Returns(v) == [exc |-> "", value |-> v]
Raises(e) == [exc |-> e, value |-> PyNone]

\* json.loads(text)
JsonLoads(text) ==
    LET r == ParseValue(text)
    IN  IF r.ok /\ r.rest = <<>> THEN Returns(r.v) ELSE Raises("JSONDecodeError")

\* ---------------------------------------------------- encryption_utils
\* settings: class Settings has OPENAI_API_KEY ("" when the variable is not
\* set) and no attribute SECRET_KEY, which getattr(..., None) allows for.
SecretOf(settings) ==
    IF "SECRET_KEY" \in DOMAIN settings /\ settings.SECRET_KEY # ""
    THEN settings.SECRET_KEY
    ELSE settings.OPENAI_API_KEY

\* _get_encryption_salt: hashlib.sha256(secret.encode()).digest()[:16], the
\* hash taken as collision-free
FixedSalt(settings) == <<"sha256[:16]", "">>
GetEncryptionSalt(settings) == <<"sha256[:16]", SecretOf(settings)>>

\* _derive_encryption_key: PBKDF2-HMAC-SHA256 of the lowercased address under
\* the salt, taken as collision-free.  No step of it raises, whatever the
\* secret is.
DeriveKeyAsSpelt(wallet_address, settings) ==
    Returns([password |-> wallet_address, salt |-> GetEncryptionSalt(settings)])
DeriveEncryptionKey(wallet_address, settings) ==
    Returns([password |-> Lower(wallet_address),
             salt |-> GetEncryptionSalt(settings)])

\* bytes: the UTF-8 encoding of a text, a Fernet token, or other bytes
Utf8Encode(text) == [b |-> "utf8", text |-> text]
RawBytes == [b |-> "raw"]
Utf8Decode(bytes) ==
    IF bytes.b = "utf8" THEN Returns(bytes.text)
    ELSE Raises("UnicodeDecodeError")

\* str.encode('ascii')
AsciiEncode(text) ==
    IF \E i \in DOMAIN text :
          \/ text[i].k = "nonascii"
          \/ text[i].k = "str" /\ text[i].s = NonAsciiLetter
    THEN Raises("UnicodeEncodeError") ELSE Returns(text)

\* Fernet(key).encrypt(data), with the random IV and the timestamp it draws
FernetEncrypt(key, data, iv) ==
    [b |-> "fernet", key |-> key, iv |-> iv, data |-> data, tag |-> TRUE]

\* Fernet(key).decrypt(token): the HMAC is verified under the key first
FernetDecrypt(key, bytes) ==
    IF bytes.b = "fernet" /\ bytes.tag /\ bytes.key = key
    THEN Returns(bytes.data) ELSE Raises("InvalidToken")

\* base64.b64encode(bytes).decode('ascii'): one lexeme stands for the text
B64Encode(bytes) == <<[k |-> "b64", of |-> bytes]>>

\* The characters of the base64 alphabet in a lexeme (the model's strings are
\* one letter and its integers one digit long)
AlphabetChars(lexeme) ==
    CASE lexeme.k \in {"str", "int"} -> 1
      [] lexeme.k = "null" -> 4
      [] OTHER -> 0

RECURSIVE CountAlphabet(_)
CountAlphabet(text) ==
    IF text = <<>> THEN 0
    ELSE AlphabetChars(text[1]) + CountAlphabet(Tail(text))

\* base64.b64decode(data): characters outside the alphabet are discarded, and
\* what is left must be a whole number of 4-character groups
B64Decode(text) ==
    IF Len(text) = 1 /\ text[1].k = "b64" THEN Returns(text[1].of)
    ELSE IF CountAlphabet(text) % 4 = 0 THEN Returns(RawBytes)
    ELSE Raises("binascii.Error")

\* encrypt_tree
EncryptTree(tree, wallet_address, settings, iv) ==
    IF Falsy(tree) THEN EmptyStr
    ELSE LET tree_json == JsonDumps(tree)
             key == DeriveEncryptionKey(wallet_address, settings).value
             encrypted == FernetEncrypt(key, Utf8Encode(tree_json), iv)
         IN  B64Encode(encrypted)

\* `except Exception`: every exception the try block can raise is one
OnlyInvalidToken(exc) == exc = "InvalidToken"
ExceptException(exc) ==
    exc \in {"UnicodeEncodeError", "binascii.Error", "InvalidToken",
             "UnicodeDecodeError", "JSONDecodeError"}

\* The try block of decrypt_tree, step by step
DecryptTry(encrypted_tree, wallet_address, settings) ==
    LET ascii == AsciiEncode(encrypted_tree)
    IN  IF ascii.exc # "" THEN ascii
        ELSE
        LET encrypted_bytes == B64Decode(ascii.value)
        IN  IF encrypted_bytes.exc # "" THEN encrypted_bytes
            ELSE
            LET key == DeriveEncryptionKey(wallet_address, settings)
                decrypted_bytes == FernetDecrypt(key.value, encrypted_bytes.value)
            IN  IF decrypted_bytes.exc # "" THEN decrypted_bytes
                ELSE
                LET tree_json == Utf8Decode(decrypted_bytes.value)
                IN  IF tree_json.exc # "" THEN tree_json
                    ELSE JsonLoads(tree_json.value)

\* decrypt_tree: what it returns, or the exception that leaves it
DecryptTree(encrypted_tree, wallet_address, settings) ==
    IF encrypted_tree = EmptyStr THEN Returns(PyNone)
    ELSE LET body == DecryptTry(encrypted_tree, wallet_address, settings)
         IN  IF body.exc = "" THEN body
             ELSE IF ExceptException(body.exc) THEN Returns(PyNone)
             ELSE body

\* -------------------------------------------- _normalize_document_result
\* A column value that is a Python str, as opposed to a dict or None
PyText(text) == [t |-> "text", text |-> text]

\* json.loads in `try ... except (json.JSONDecodeError, TypeError): pass`
KeepText(tree_value) == tree_value
LoadsOrKeep(tree_value) ==
    LET parsed == JsonLoads(tree_value.text)
    IN  IF parsed.exc = "" THEN parsed.value ELSE tree_value

\* _normalize_document_result(result, owner_wallet): the row it returns
NormalizeDocumentResult(result, owner_wallet, settings) ==
    IF "tree" \notin DOMAIN result \/ result.tree.t = "none" THEN Returns(result)
    ELSE LET tree_value == result.tree
         IN  IF tree_value.t = "dict" THEN Returns(result)
             ELSE IF tree_value.t # "text" THEN Returns(result)
             ELSE IF owner_wallet # EmptyStr
             THEN LET decrypted == DecryptTree(tree_value.text, owner_wallet,
                                               settings)
                  IN  IF decrypted.exc # "" THEN decrypted
                      ELSE IF decrypted.value.t # "none"
                      THEN Returns([result EXCEPT !.tree = decrypted.value])
                      ELSE Returns([result EXCEPT !.tree = LoadsOrKeep(tree_value)])
             ELSE Returns([result EXCEPT !.tree = LoadsOrKeep(tree_value)])

\* ------------------------------------------------------ sealing: inputs
Trees ==
    {PyDict(<<>>),
     PyDict(<< <<"a", PyInt(1)>> >>),
     PyDict(<< <<"a", PyStr("x")>>, <<"b", PyDict(<< <<"c", PyNone>> >>)>> >>),
     PyDict(<< <<"n", PyStr(NonAsciiLetter)>> >>),
     PyDict(<< <<"a", PyInt(1)>>, <<"b", PyInt(2)>>, <<"c", PyInt(3)>>,
               <<"d", PyInt(4)>> >>)}

SealWallets == {AliceAddr, Lower(AliceAddr), BobAddr}

\* Settings as os.getenv("OPENAI_API_KEY", "") makes them
SettingsSet == {[OPENAI_API_KEY |-> k] : k \in {"", "sk-a", "sk-b"}}

IVs == {1, 2}

\* The strings decrypt_tree is given: nothing, text outside ASCII, plain JSON,
\* base64 of bytes that are no token, and tokens: sealed for a wallet under a
\* secret, with a broken tag, or with a payload that is not UTF-8 or not JSON.
SealedTexts ==
    {EmptyStr, <<NonAsciiLex>>, B64Encode(RawBytes)}
    \cup {JsonDumps(tree) : tree \in Trees}
    \cup {EncryptTree(tree, w, settings, 1) :
            tree \in Trees, w \in {AliceAddr, BobAddr}, settings \in SettingsSet}
    \cup {B64Encode([FernetEncrypt(DeriveEncryptionKey(AliceAddr, settings).value,
                                   Utf8Encode(JsonDumps(tree)), 1)
                       EXCEPT !.tag = FALSE]) :
            tree \in Trees, settings \in SettingsSet}
    \cup {B64Encode(FernetEncrypt(DeriveEncryptionKey(AliceAddr, settings).value,
                                  data, 1)) :
            data \in {RawBytes, Utf8Encode(<<LBrace>>),
                      Utf8Encode(<<LBrace, StrLex("a"), Comma, RBrace>>)},
            settings \in SettingsSet}

\* The document rows _normalize_document_result is given
DocumentRows ==
    {[id |-> 1], [id |-> 1, tree |-> PyNone]}
    \cup {[id |-> 1, tree |-> tree] : tree \in Trees}
    \cup {[id |-> 1, tree |-> PyText(text)] : text \in SealedTexts}

\* ----------------------------------------------------- sealing: calls
\* encrypt_tree for one wallet, then decrypt_tree of its result for another
SealOpen(tree, wallet_address, wallet2, settings, iv) ==
    /\ LET sealed == EncryptTree(tree, wallet_address, settings, iv)
       IN  last' = [op |-> "seal_open", tree |-> tree, wallet |-> wallet_address,
                    wallet2 |-> wallet2, settings |-> settings,
                    sealed |-> sealed,
                    out |-> DecryptTree(sealed, wallet2, settings)]
    /\ UNCHANGED <<services, nova, clock, db, nextNonce, req, ghost>>

\* _derive_encryption_key
Derive(wallet_address, settings) ==
    /\ last' = [op |-> "derive", wallet |-> wallet_address,
                settings |-> settings,
                out |-> DeriveEncryptionKey(wallet_address, settings)]
    /\ UNCHANGED <<services, nova, clock, db, nextNonce, req, ghost>>

\* decrypt_tree
Open(encrypted_tree, wallet_address, settings) ==
    /\ last' = [op |-> "open", text |-> encrypted_tree,
                wallet |-> wallet_address, settings |-> settings,
                out |-> DecryptTree(encrypted_tree, wallet_address, settings)]
    /\ UNCHANGED <<services, nova, clock, db, nextNonce, req, ghost>>

\* _normalize_document_result
Normalize(result, owner_wallet, settings) ==
    /\ last' = [op |-> "normalize", row |-> result, wallet |-> owner_wallet,
                settings |-> settings,
                out |-> NormalizeDocumentResult(result, owner_wallet, settings)]
    /\ UNCHANGED <<services, nova, clock, db, nextNonce, req, ghost>>

\* -------------------------------------------------------- nova_storage
MaxBlobs == 2

\* bytes of an uploaded file
Blobs == {<<>>, <<1, 2>>}
\* The base64 texts of the 32-byte keys prepare_upload hands out
NovaKeys == {"k1", "k2"}
\* os.urandom(12)
GcmIVs == {1, 2}

\* _sha256_hex, the hash taken as collision-free
Sha256Hex(data) == <<"sha256", data>>

\* base64.b64decode(key_b64)
KeyBytes(key_b64) == [b |-> "key", of |-> key_b64]

\* AESGCM(key).encrypt(iv, data, None) behind its IV:
\* IV || ciphertext || tag
AesGcmPayload(key, iv, data) ==
    [b |-> "gcm", key |-> key, iv |-> iv, data |-> data]

\* _encrypt_data, with the IV os.urandom draws
EncryptData(data, key_b64, iv) ==
    B64Encode(AesGcmPayload(KeyBytes(key_b64), iv, data))

\* _decrypt_data: the tag is verified under the key
DecryptData(encrypted_b64, key_b64) ==
    LET raw == B64Decode(encrypted_b64)
    IN  IF raw.exc # "" THEN raw
        ELSE IF raw.value.b = "gcm" /\ raw.value.key = KeyBytes(key_b64)
        THEN Returns(raw.value.data)
        ELSE Raises("InvalidTag")

\* dict.get(key, default)
DictGet(d, key, default) == IF key \in DOMAIN d THEN d[key] ELSE default

\* nova_upload, step 2: the hash of the file
HashOfPayload(data, encrypted_b64) == Sha256Hex(encrypted_b64)
FileHash(data, encrypted_b64) == Sha256Hex(data)

\* The Nova service's answer to finalize-upload: the CID it stored the data
\* under and, each at its choice, the transaction id it recorded and the
\* file hash it was sent.
AnswerShapes == [trans_id : BOOLEAN, file_hash : BOOLEAN]
FinalizeAnswer(cid, file_hash, shape) ==
    [k \in {"cid"} \cup (IF shape.trans_id THEN {"trans_id"} ELSE {})
                   \cup (IF shape.file_hash THEN {"file_hash"} ELSE {}) |->
        CASE k = "cid" -> cid
          [] k = "trans_id" -> "tx"
          [] k = "file_hash" -> file_hash]

\* nova_upload, the dict it returns
UploadResult(result, file_hash) ==
    [cid |-> result["cid"],
     trans_id |-> DictGet(result, "trans_id", ""),
     file_hash |-> DictGet(result, "file_hash", file_hash)]

\* _get_session_token: the token, or RuntimeError when the account is not
\* configured or the service returns no token
Sessions == {"token", "RuntimeError"}
\* HTTP status of an answer of the service
Statuses == {200, 500}

\* nova_upload.  The service keeps what finalize-upload is sent, with the key
\* it handed out, under a new CID (`plain` and `hash` are history: the bytes
\* uploaded and the hash returned for them).
nova_upload(data, session, prep_status, key_b64, iv, fin_status, shape) ==
    LET done == session = "token" /\ prep_status = 200 /\ fin_status = 200
        cid == Cardinality(nova) + 1
        encrypted_b64 == EncryptData(data, key_b64, iv)
        file_hash == FileHash(data, encrypted_b64)
        result == FinalizeAnswer(cid, file_hash, shape)
        out == IF done THEN Returns(UploadResult(result, file_hash))
               ELSE Raises("RuntimeError")
    IN  /\ done => Cardinality(nova) < MaxBlobs
        /\ nova' = IF done
                   THEN nova \cup {[cid |-> cid, encrypted_b64 |-> encrypted_b64,
                                    key |-> key_b64, plain |-> data,
                                    hash |-> out.value.file_hash]}
                   ELSE nova
        /\ last' = [op |-> "upload", data |-> data, key |-> key_b64, iv |-> iv,
                    shape |-> shape, out |-> out]
        /\ UNCHANGED <<services, clock, db, nextNonce, req, ghost>>

\* nova_retrieve: prepare_retrieve answers with the stored data and key, or
\* with an error status, as it does for a CID it does not hold
nova_retrieve(cid, session, status) ==
    /\ LET held_blobs == {b \in nova : b.cid = cid}
           out == IF session # "token" THEN Raises("RuntimeError")
                  ELSE IF status # 200 \/ held_blobs = {}
                  THEN Raises("HTTPStatusError")
                  ELSE LET body == CHOOSE b \in held_blobs : TRUE
                       IN  DecryptData(body.encrypted_b64, body.key)
       IN  last' = [op |-> "retrieve", cid |-> cid, out |-> out]
    /\ UNCHANGED <<services, nova, clock, db, nextNonce, req, ghost>>

\* ----------------------------------------------------- upload_nova_cli
\* The CLI's stderr: a text in which one lexeme stands for each spelling of
\* the marker, next to letters, digits and other characters.
Marker == "Transaction ID: "
AlnumChars == {"a", "Z", "7"}
Stderrs ==
    { <<>>,
      <<"-", " ", "\n">>,
      <<Marker>>,
      <<Marker, "\n">>,
      <<Marker, "a", "7">>,
      <<Marker, "Z", "-", "7">>,
      <<"a", Marker, "7", "\n", Marker, "Z">>,
      <<Marker, "\n", Marker, "a">>,
      <<"transaction id: ", "a">>,
      <<"Transaction ID:", "a">>,
      <<"a", "7">> }

\* [a-zA-Z0-9]+ at the head of a text: the longest run
RECURSIVE AlnumRun(_)
AlnumRun(text) ==
    IF text # <<>> /\ text[1] \in AlnumChars
    THEN <<text[1]>> \o AlnumRun(Tail(text))
    ELSE <<>>

\* re.search(r"Transaction ID: ([a-zA-Z0-9]+)", text): group 1 of the
\* leftmost match, <<>> for no match
RECURSIVE SearchAnyRun(_)
SearchAnyRun(text) ==
    IF text = <<>> THEN <<>>
    ELSE IF AlnumRun(text) # <<>> THEN AlnumRun(text)
    ELSE SearchAnyRun(Tail(text))

RECURSIVE ReSearch(_)
ReSearch(text) ==
    IF text = <<>> THEN <<>>
    ELSE IF text[1] = Marker /\ AlnumRun(Tail(text)) # <<>>
    THEN AlnumRun(Tail(text))
    ELSE ReSearch(Tail(text))

\* subprocess.run(command, capture_output=True, text=True, check=False):
\* the completed process, or the exception of a program that did not start
Processes ==
    [raised : {""}, returncode : {0, 1}, stderr : Stderrs]
      \cup {[raised |-> "FileNotFoundError", returncode |-> 0, stderr |-> <<>>]}

HardcodedCid == "bafkreiepmge7s7izbl272mbsgj3ejfmsswcyvgjdfth64dlmcd4e3kqafu"
HttpError(status, detail) == [status |-> status, detail |-> detail]

\* upload_nova_cli: the HTTPException raised inside the try block is caught
\* by `except Exception` and raised again as a 500 with its text as detail
UploadNovaCli(result) ==
    IF result.raised # "" THEN HttpError(500, result.raised)
    ELSE IF result.returncode # 0
    THEN HttpError(500, "500: CLI Execution Failed")
    ELSE LET tx_hash == ReSearch(result.stderr)
         IN  IF tx_hash = <<>>
             THEN HttpError(500, "500: Could not parse Transaction ID")
             ELSE [status |-> 200, cid |-> HardcodedCid,
                   transactionHash |-> tx_hash,
                   blockscanUrl |-> <<"https://testnet.nearblocks.io/tx/">>
                                       \o tx_hash]

upload_nova_cli(result) ==
    /\ last' = [op |-> "anchor", proc |-> result, out |-> UploadNovaCli(result)]
    /\ UNCHANGED <<services, nova, clock, db, nextNonce, req, ghost>>

\* ------------------------------------------------------ UserRepository
MaxUserIds == 2

\* The columns RETURNING and the SELECT lists name: all but password_hash
Returning(u) ==
    [id |-> u.id, wallet_address |-> u.wallet_address,
     username |-> u.username, email |-> u.email, metadata |-> u.metadata]

\* UserRepository.find_by_id, find_by_username: the rows WHERE selects
FindById(tbl, user_id) == {u \in tbl : u.id = user_id}
FindByUsername(tbl, username) == {u \in tbl : u.username = username}

\* conn.fetchrow and `if row`: the first row as a dict, or None
FetchRow(rows) ==
    IF rows = {} THEN PyNone ELSE Returning(CHOOSE u \in rows : TRUE)

\* What the repository's callers pass
RepoWallets == {AliceAddr, Lower(AliceAddr), BobAddr}
RepoUsernames == {<<"a", "l">>, <<"b", "o">>, Lower(AliceAddr)}
RepoEmails == {NullStr, <<"a", "@", "x">>, <<"b", "@", "x">>}

\* UserRepository.create: the INSERT returns the new row, or a unique
\* violation is raised again as ValueError (`before` is the table as the call
\* found it)
UserRepository_create(wallet_address, username, password_hash, email) ==
    /\ LET bad == UniqueViolation(users, wallet_address, username, email)
           row == UserRow(nextId, wallet_address, username, password_hash,
                          email, "null")
       IN  IF bad = ""
           THEN /\ nextId <= MaxUserIds
                /\ users' = users \cup {row}
                /\ nextId' = nextId + 1
                /\ last' = [op |-> "create", wallet |-> wallet_address,
                            username |-> username, email |-> email,
                            before |-> users, exc |-> "", msg |-> "",
                            out |-> Returning(row)]
           ELSE /\ UNCHANGED <<users, nextId>>
                /\ last' = [op |-> "create", wallet |-> wallet_address,
                            username |-> username, email |-> email,
                            before |-> users, exc |-> "ValueError",
                            msg |-> bad, out |-> PyNone]
    /\ UNCHANGED <<services, nova, clock, nonces, regs, nextNonce, req,
                   ghost>>

UserRepository_find_by_id(user_id) ==
    /\ last' = [op |-> "find_by_id", id |-> user_id,
                out |-> FetchRow(FindById(users, user_id))]
    /\ UNCHANGED <<services, nova, clock, db, nextNonce, req, ghost>>

UserRepository_find_by_username(username) ==
    /\ last' = [op |-> "find_by_username", username |-> username,
                out |-> FetchRow(FindByUsername(users, username))]
    /\ UNCHANGED <<services, nova, clock, db, nextNonce, req, ghost>>

UserRepository_find_by_wallet_address(wallet_address) ==
    /\ last' = [op |-> "find_by_wallet_address", wallet |-> wallet_address,
                out |-> FetchRow(FindByWalletAddress(users, wallet_address))]
    /\ UNCHANGED <<services, nova, clock, db, nextNonce, req, ghost>>

\* ---------------------------------------------------- update_metadata
\* A JSONB value as asyncpg returns it: None for NULL, else its text
SqlNull == [null |-> TRUE, text |-> <<>>]
JsonbText(text) == [null |-> FALSE, text |-> text]

\* dict as a mapping: its keys, and the value under a key
DictKeys(items) == {items[i][1] : i \in DOMAIN items}
DictValue(items, key) ==
    items[CHOOSE i \in DOMAIN items : items[i][1] = key][2]

\* {**current, **metadata}: the keys of current in their order, each with the
\* value metadata has for it if any, then the new keys of metadata
RECURSIVE Overlay(_, _), NewItems(_, _)
Overlay(current, metadata) ==
    IF current = <<>> THEN <<>>
    ELSE LET key == current[1][1]
         IN  << <<key, IF key \in DictKeys(metadata)
                       THEN DictValue(metadata, key) ELSE current[1][2]>> >>
             \o Overlay(Tail(current), metadata)

NewItems(current, metadata) ==
    IF metadata = <<>> THEN <<>>
    ELSE (IF metadata[1][1] \in DictKeys(current) THEN <<>>
          ELSE <<metadata[1]>>) \o NewItems(current, Tail(metadata))

DictMerge(current, metadata) ==
    Overlay(current, metadata) \o NewItems(current, metadata)

\* $1::jsonb: a JSONB object keeps its keys in its own order (by length,
\* then bytewise), not in the order of the text it was given
KeyOrder == <<"a", "b", "c", "t">>
RECURSIVE InKeyOrder(_, _)
InKeyOrder(items, keys) ==
    IF keys = <<>> THEN <<>>
    ELSE (IF keys[1] \in DictKeys(items)
          THEN << <<keys[1], DictValue(items, keys[1])>> >> ELSE <<>>)
         \o InKeyOrder(items, Tail(keys))

ToJsonb(metadata_json) ==
    LET parsed == JsonLoads(metadata_json).value
    IN  IF parsed.t = "dict"
        THEN JsonbText(JsonDumps(PyDict(InKeyOrder(parsed.items, KeyOrder))))
        ELSE JsonbText(metadata_json)

\* update_metadata, lines 319-326: the dict the stored value stands for
CurrentDict(value) ==
    IF value.null THEN <<>>
    ELSE LET parsed == JsonLoads(value.text)
         IN  IF parsed.exc = "" /\ parsed.value.t = "dict"
             THEN parsed.value.items ELSE <<>>

\* The metadata create stored with a user, and the updates callers send
StoredMetadata ==
    {SqlNull,
     ToJsonb(JsonDumps(PyDict(<< <<"t", PyInt(0)>>, <<"a", PyInt(0)>> >>)))}
MetadataUpdates ==
    {<< <<"a", PyInt(1)>> >>,
     << <<"c", PyInt(3)>>, <<"b", PyInt(2)>> >>}
UserIds == {1}

\* UserRepository.create, the metadata it inserts with the new row
InsertMetadata(user_id, value) ==
    /\ user_id \notin DOMAIN user_metadata
    /\ user_metadata' =
          [id \in DOMAIN user_metadata \cup {user_id} |->
              IF id = user_id THEN value ELSE user_metadata[id]]
    /\ last' = [op |-> "insert", id |-> user_id]
    /\ UNCHANGED <<mreq, otherThanMeta>>

\* update_metadata up to its second await: SELECT metadata, and the parse
SelectMetadata(r, user_id, update) ==
    /\ mreq[r].pc = "idle"
    /\ LET current == IF user_id \in DOMAIN user_metadata
                      THEN CurrentDict(user_metadata[user_id]) ELSE <<>>
       IN  mreq' = [mreq EXCEPT ![r] = [pc |-> "update", id |-> user_id,
                                        update |-> update,
                                        current |-> current]]
    /\ last' = [op |-> "select_metadata", id |-> user_id]
    /\ UNCHANGED <<user_metadata, otherThanMeta>>

\* update_metadata from there: the merge, UPDATE ... RETURNING, and the row
\* or None (`before` is the dict stored when the UPDATE ran)
UpdateMetadata(r) ==
    /\ mreq[r].pc = "update"
    /\ LET user_id == mreq[r].id
           merged_metadata == DictMerge(mreq[r].current, mreq[r].update)
           metadata_json == JsonDumps(PyDict(merged_metadata))
           found == user_id \in DOMAIN user_metadata
       IN  /\ user_metadata' =
                 IF found
                 THEN [user_metadata EXCEPT ![user_id] = ToJsonb(metadata_json)]
                 ELSE user_metadata
           /\ last' = [op |-> "update_metadata", id |-> user_id,
                       update |-> mreq[r].update, found |-> found,
                       before |-> IF found
                                  THEN CurrentDict(user_metadata[user_id])
                                  ELSE <<>>,
                       out |-> IF found THEN merged_metadata ELSE <<>>]
    /\ mreq' = [mreq EXCEPT ![r] = [pc |-> "idle", id |-> 0, update |-> <<>>,
                                    current |-> <<>>]]
    /\ UNCHANGED otherThanMeta

\* ------------------------------------------------------ routers/vaults
\* request.owner_wallet.lower()
OwnerAsGiven(wallet) == wallet
OwnerWallet(wallet) == Lower(wallet)

\* select(Vault).where(owner_wallet == ..., doc_hash == ...)
SelectVaults(tbl, owner_wallet, doc_hash) ==
    {v \in tbl : v.owner_wallet = owner_wallet /\ v.doc_hash = doc_hash}

\* The unique constraint (owner_wallet, doc_hash) of table vaults
VaultUniqueViolation(tbl, vault) ==
    SelectVaults(tbl, vault.owner_wallet, vault.doc_hash) # {}

\* `if request.toc_signature:` and `is not None`
Truthy(text) == text \notin {NoSignature, ""}
NotNone(text) == text # NoSignature

\* session.commit() of a loaded object: the UPDATE sets the columns whose
\* value was changed since the load, in the row with the object's id
Flush(stored, loaded, assigned) ==
    [c \in DOMAIN stored |->
        IF assigned[c] # loaded[c] THEN assigned[c] ELSE stored[c]]

\* The bodies clients send
CreateVaultRequests ==
    {[owner_wallet |-> AliceAddr, doc_hash |-> "h1", title |-> "T",
      encrypted_toc |-> "e1", toc_signature |-> "s1"],
     [owner_wallet |-> AliceAddr, doc_hash |-> "h1", title |-> "T",
      encrypted_toc |-> "e2", toc_signature |-> NoSignature],
     [owner_wallet |-> Lower(AliceAddr), doc_hash |-> "h1", title |-> "T",
      encrypted_toc |-> "e2", toc_signature |-> ""],
     [owner_wallet |-> BobAddr, doc_hash |-> "h1", title |-> "T",
      encrypted_toc |-> "e1", toc_signature |-> "s2"]}
UpdateVaultRequests ==
    {[owner_wallet |-> AliceAddr, doc_hash |-> "h1", title |-> NoSignature,
      encrypted_toc |-> "e3", toc_signature |-> NoSignature],
     [owner_wallet |-> AliceAddr, doc_hash |-> "h1", title |-> "U",
      encrypted_toc |-> NoSignature, toc_signature |-> "s3"],
     [owner_wallet |-> BobAddr, doc_hash |-> "h2", title |-> "U",
      encrypted_toc |-> NoSignature, toc_signature |-> NoSignature]}

\* create_vault up to the commit: the SELECT, and the object to write
CreateVaultSelect(r, request) ==
    /\ vreq[r].pc = "idle"
    /\ LET owner_wallet == OwnerWallet(request.owner_wallet)
           found == SelectVaults(vaults, owner_wallet, request.doc_hash)
       IN  IF found = {}
           THEN vreq' = [vreq EXCEPT ![r] =
                   [pc |-> "insert", op |-> "create_vault",
                    request |-> request,
                    vault |-> [id |-> 0, owner_wallet |-> owner_wallet,
                               doc_hash |-> request.doc_hash,
                               title |-> request.title,
                               encrypted_toc |-> request.encrypted_toc,
                               toc_signature |-> request.toc_signature]]]
           ELSE \E existing \in found :
                vreq' = [vreq EXCEPT ![r] =
                   [pc |-> "update", op |-> "create_vault",
                    request |-> request, vault |-> existing]]
    /\ last' = [op |-> "select_vault"]
    /\ UNCHANGED <<vaults, otherThanVaults>>

\* update_vault up to the commit, or its 404
UpdateVaultSelect(r, request) ==
    /\ vreq[r].pc = "idle"
    /\ LET found == SelectVaults(vaults, OwnerWallet(request.owner_wallet),
                                 request.doc_hash)
       IN  IF found = {}
           THEN /\ vreq' = vreq
                /\ last' = [op |-> "update_vault", status |-> 404,
                            request |-> request, existed |-> FALSE,
                            before |-> vaults, held |-> NoVault,
                            out |-> NoVault]
           ELSE /\ \E existing \in found :
                      vreq' = [vreq EXCEPT ![r] =
                         [pc |-> "update", op |-> "update_vault",
                          request |-> request, vault |-> existing]]
                /\ last' = [op |-> "select_vault"]
    /\ UNCHANGED <<vaults, otherThanVaults>>

\* The attributes the handler assigns to the loaded object
Assigned(op, request, existing) ==
    IF op = "create_vault"
    THEN [existing EXCEPT
            !.encrypted_toc = request.encrypted_toc,
            !.title = request.title,
            !.toc_signature = IF Truthy(request.toc_signature)
                              THEN request.toc_signature ELSE @]
    ELSE [existing EXCEPT
            !.encrypted_toc = IF NotNone(request.encrypted_toc)
                              THEN request.encrypted_toc ELSE @,
            !.title = IF NotNone(request.title) THEN request.title ELSE @,
            !.toc_signature = IF NotNone(request.toc_signature)
                              THEN request.toc_signature ELSE @]

\* session.add, commit and refresh: the INSERT (IntegrityError on a unique
\* violation), or the UPDATE of the loaded row; `before` is the table and
\* `held` the row as the commit found them
VaultCommit(r) ==
    /\ vreq[r].pc \in {"insert", "update"}
    /\ LET q == vreq[r]
       IN  IF q.pc = "insert"
           THEN IF VaultUniqueViolation(vaults, q.vault)
                THEN /\ vaults' = vaults
                     /\ last' = [op |-> q.op, status |-> 500,
                                 request |-> q.request, existed |-> FALSE,
                                 before |-> vaults, held |-> NoVault,
                                 out |-> NoVault]
                ELSE LET vault == [q.vault EXCEPT
                                      !.id = Cardinality(vaults) + 1]
                     IN  /\ vaults' = vaults \cup {vault}
                         /\ last' = [op |-> q.op, status |-> 201,
                                     request |-> q.request,
                                     existed |-> FALSE, before |-> vaults,
                                     held |-> NoVault, out |-> vault]
           ELSE LET stored == CHOOSE v \in vaults : v.id = q.vault.id
                    vault == Flush(stored, q.vault,
                                   Assigned(q.op, q.request, q.vault))
                IN  /\ vaults' = (vaults \ {stored}) \cup {vault}
                    /\ last' = [op |-> q.op,
                                status |-> IF q.op = "create_vault"
                                           THEN 201 ELSE 200,
                                request |-> q.request, existed |-> TRUE,
                                before |-> vaults, held |-> stored,
                                out |-> vault]
    /\ vreq' = [vreq EXCEPT ![r] = VIdle]
    /\ UNCHANGED otherThanVaults

\* ------------------------------------------- nova_storage: session token
\* _parse_expiry: '24h', '30m', '1d' in seconds; re.match raises TypeError
\* for what is no string
ExpiryUnits == {"h", "m", "d"}
ParseExpiry(e) ==
    IF e.t # "str" THEN Raises("TypeError")
    ELSE IF e.digits = 0 \/ e.unit \notin ExpiryUnits
    THEN Returns(23 * 3600)
    ELSE IF e.unit = "h" THEN Returns(e.value * 3600)
    ELSE IF e.unit = "m" THEN Returns(e.value * 60)
    ELSE Returns(e.value * 86400)

\* A text of `digits` decimal digits of value `value`, then `unit`
ExpiryText(digits, value, unit) ==
    [t |-> "str", digits |-> digits, value |-> value, unit |-> unit]
\* body.get("expires_in", "24h")
DefaultExpiry == ExpiryText(2, 24, "h")
NoExpiresIn == [t |-> "absent", digits |-> 0, value |-> 0, unit |-> ""]
NotAString == [t |-> "int", digits |-> 0, value |-> 3600, unit |-> ""]

\* What the auth service answers to POST /api/auth/session-token: no answer
\* at all, a status, and in the body "token" (None when absent) and
\* "expires_in"
AuthAnswer(status, token, expires_in) ==
    [status |-> status, token |-> token, expires_in |-> expires_in]
AuthAnswers ==
    {AuthAnswer(0, "<None>", NoExpiresIn),
     AuthAnswer(401, "<None>", NoExpiresIn),
     AuthAnswer(500, "t0", ExpiryText(2, 24, "h")),
     AuthAnswer(200, "<None>", ExpiryText(2, 24, "h")),
     AuthAnswer(200, "", ExpiryText(2, 24, "h")),
     AuthAnswer(200, "t1", ExpiryText(2, 30, "m")),
     AuthAnswer(200, "t2", ExpiryText(1, 1, "h")),
     AuthAnswer(200, "t3", NoExpiresIn),
     AuthAnswer(200, "t4", ExpiryText(1, 1, "w")),
     AuthAnswer(200, "t5", ExpiryText(0, 0, "h")),
     AuthAnswer(200, "t6", NotAString),
     AuthAnswer(200, "t7", ExpiryText(1, 0, "m"))}

\* settings.NOVA_API_KEY and settings.NOVA_ACCOUNT_ID
NovaSettings == [NOVA_API_KEY |-> "key", NOVA_ACCOUNT_ID |-> "a.near"]

\* _token_cache, when it is no None
CacheEntry(token, expires_at) == [token |-> token, expires_at |-> expires_at]

\* `_token_cache and _token_cache["expires_at"] > time.time() + 300`
Unexpired(cache, time) == cache # NoCache /\ cache.expires_at > time
StillValid(cache, time) ==
    cache # NoCache /\ cache.expires_at > time + Seconds(300)

\* The clock of the cache: a tick, the margin, and the lives of the tokens
\* less the margin
TokenDelays == {1, Seconds(300), Seconds(1500) - 1, Seconds(3300)}

\* _get_session_token up to its first await: the cached token, or the request
\* to the auth service is sent
SessionTokenStart(r) ==
    /\ treq[r] = "idle"
    /\ NovaSettings.NOVA_API_KEY # "" /\ NovaSettings.NOVA_ACCOUNT_ID # ""
    /\ IF StillValid(token_cache, now)
       THEN /\ last' = [op |-> "session_token", fetched |-> FALSE,
                        at |-> now, before |-> token_cache,
                        out |-> Returns(token_cache.token)]
            /\ UNCHANGED treq
       ELSE /\ last' = [op |-> "fetch", at |-> now, before |-> token_cache]
            /\ treq' = [treq EXCEPT ![r] = "fetching"]
    /\ UNCHANGED <<token_cache, clock, otherThanToken>>

\* The rest of _get_session_token, on what the auth service answered
SessionTokenAnswer(r, answer) ==
    /\ treq[r] = "fetching"
    /\ treq' = [treq EXCEPT ![r] = "idle"]
    /\ LET expires_in == IF answer.expires_in.t = "absent" THEN DefaultExpiry
                         ELSE answer.expires_in
           expires_seconds == ParseExpiry(expires_in)
           exc == IF answer.status = 0 THEN "ConnectError"
                  ELSE IF answer.status >= 400 THEN "HTTPStatusError"
                  ELSE IF answer.token \in {"<None>", ""} THEN "RuntimeError"
                  ELSE expires_seconds.exc
       IN  /\ token_cache' =
                 IF exc # "" THEN token_cache
                 ELSE CacheEntry(answer.token,
                                 now + Seconds(expires_seconds.value))
           /\ last' = [op |-> "session_token", fetched |-> TRUE, at |-> now,
                       before |-> token_cache, answer |-> answer,
                       out |-> IF exc # "" THEN Raises(exc)
                               ELSE Returns(answer.token)]
    /\ UNCHANGED <<clock, otherThanToken>>

\* -------------------------------------------------------- routers/users
\* credentials.username and credentials.password
LoginNames == {Lower(AliceAddr), AliceAddr, <<"a", "l">>}
LoginPasswords == {"", "pw"}

\* bcrypt.checkpw: the hash of the password is taken with the salt of
\* password_hash and compared; what is no bcrypt hash has no salt to take
\* ("Invalid salt")
IsBcryptHash(password_hash) ==
    Len(password_hash) = 2 /\ password_hash[1] = "$2b$"
EmptyMatchesEmpty(password, password_hash) ==
    IF IsBcryptHash(password_hash) THEN Returns(password_hash = Bcrypt(password))
    ELSE Returns(password = "" /\ password_hash = EmptyStr)
verify_password(password, password_hash) ==
    IF IsBcryptHash(password_hash) THEN Returns(password_hash = Bcrypt(password))
    ELSE Raises("ValueError")

\* The response of a login_user request that ends without user data
LoginFails(r, username, password, user_data, status, detail) ==
    /\ lreq' = [lreq EXCEPT ![r] = LIdle]
    /\ last' = [op |-> "login", username |-> username, password |-> password,
                user_data |-> user_data, status |-> status,
                detail |-> detail, user |-> PyNone]

\* login_user from the row found on: lines 61-72, up to update_last_login
LoginVerify(r, username, password, user_data) ==
    LET ok == verify_password(password, user_data.password_hash)
    IN  IF ok.exc # ""
        THEN LoginFails(r, username, password, user_data, 500,
                        "Internal server error")
        ELSE IF ~ok.value
        THEN LoginFails(r, username, password, user_data, 401,
                        "Invalid username or password")
        ELSE /\ lreq' = [lreq EXCEPT ![r] = [pc |-> "update",
                                             username |-> username,
                                             password |-> password,
                                             user_data |-> user_data]]
             /\ last' = [op |-> "login_verified"]

\* POST /users/login: find_by_username(credentials.username)
LoginByUsername(r, username, password) ==
    /\ lreq[r].pc = "idle"
    /\ LET rows == FindByUsername(users, username)
       IN  IF rows # {}
           THEN LoginVerify(r, username, password, CHOOSE u \in rows : TRUE)
           ELSE /\ lreq' = [lreq EXCEPT ![r] = [pc |-> "by_wallet",
                                                username |-> username,
                                                password |-> password,
                                                user_data |-> NoUser]]
                /\ last' = [op |-> "login_by_username"]
    /\ UNCHANGED <<last_login, otherThanLogin>>

\* ... then find_by_wallet_address(credentials.username)
LoginByWallet(r) ==
    /\ lreq[r].pc = "by_wallet"
    /\ LET rows == FindByWalletAddress(users, lreq[r].username)
       IN  IF rows # {}
           THEN LoginVerify(r, lreq[r].username, lreq[r].password,
                            CHOOSE u \in rows : TRUE)
           ELSE LoginFails(r, lreq[r].username, lreq[r].password, NoUser, 401,
                           "Invalid username or password")
    /\ UNCHANGED <<last_login, otherThanLogin>>

\* ... then update_last_login(user_data['id']) and the response, which is
\* user_data without password_hash
LoginUpdate(r) ==
    /\ lreq[r].pc = "update"
    /\ LET id == lreq[r].user_data.id
       IN  last_login' =
               IF FindById(users, id) = {} THEN last_login
               ELSE [i \in DOMAIN last_login \cup {id} |->
                        IF i = id THEN now ELSE last_login[i]]
    /\ lreq' = [lreq EXCEPT ![r] = LIdle]
    /\ last' = [op |-> "login", username |-> lreq[r].username,
                password |-> lreq[r].password,
                user_data |-> lreq[r].user_data, status |-> 200,
                detail |-> "Login successful",
                user |-> Returning(lreq[r].user_data)]
    /\ UNCHANGED otherThanLogin

\* ------------------------------------------------- database/connection
MaxPools == 3

max_retries == 3

\* The DATABASE_URL the process is started with
ConnStrings == {"", "dsn"}

\* The call just handled: the call, how its initialize ended ("none" when it
\* ran none), the create_pool attempts of that initialize, and what the call
\* raised or went on to
Pg(call, init, attempts, out) ==
    [op |-> "pg", call |-> call, init |-> init, attempts |-> attempts,
     out |-> out]

\* `if attempt < max_retries - 1`, and its loss
RetryAlways(attempt) == TRUE
RetryAfter(attempt) == attempt < max_retries - 1

\* initialize has returned to its caller: the caller of the client, line 94
\* of get_connection, or line 105
AfterInitialize(r, within, pool_now, init, attempts) ==
    IF within = "initialize"
    THEN /\ task' = [task EXCEPT ![r] = PIdle]
         /\ last' = Pg("initialize", init, attempts, "")
    ELSE IF within = "recover"
    THEN /\ task' = [task EXCEPT ![r] = PIdle]
         /\ last' = Pg("get_connection", init, attempts,
                       "PostgresConnectionError")
    ELSE IF pool_now = NoPool
    THEN /\ task' = [task EXCEPT ![r] = PIdle]
         /\ last' = Pg("get_connection", init, attempts, "RuntimeError")
    ELSE /\ task' = [task EXCEPT ![r] = [pc |-> "acquiring",
                                         within |-> within, attempt |-> 0,
                                         ref |-> pool_now]]
         /\ last' = Pg("get_connection", init, attempts, "acquire")

\* initialize, lines 32-48, entered by task r when `initialized` and `pool`
\* are as given: it returns at once, waits for the lock, or takes the lock
\* and starts the first attempt
EnterInitialize(r, within, initialized_now, pool_now) ==
    IF initialized_now
    THEN /\ AfterInitialize(r, within, pool_now, "already", 0)
         /\ UNCHANGED lock
    ELSE IF lock # Unlocked
    THEN /\ task' = [task EXCEPT ![r] = [pc |-> "lock", within |-> within,
                                         attempt |-> 0, ref |-> NoPool]]
         /\ last' = Pg(within, "waits", 0, "")
         /\ UNCHANGED lock
    ELSE IF conn_string = ""
    THEN /\ AfterInitialize(r, within, pool_now, "empty", 0)
         /\ UNCHANGED lock
    ELSE /\ task' = [task EXCEPT ![r] = [pc |-> "creating",
                                         within |-> within, attempt |-> 0,
                                         ref |-> NoPool]]
         /\ last' = Pg(within, "attempts", 0, "")
         /\ lock' = r

\* The process starts with another DATABASE_URL: the singleton as __new__
\* makes it
Construct(dsn) ==
    /\ \A r \in Reqs : task[r] = PIdle
    /\ ~initialized /\ pool = NoPool /\ pools = {}
    /\ conn_string' = dsn
    /\ last' = Pg("__new__", "none", 0, "")
    /\ UNCHANGED <<initialized, pool, lock, task, pools, made, sinceClose,
                   otherThanPg>>

\* postgres_client.initialize()
initialize(r) ==
    /\ task[r] = PIdle
    /\ EnterInitialize(r, "initialize", initialized, pool)
    /\ UNCHANGED <<conn_string, initialized, pool, pools, made, sinceClose,
                   otherThanPg>>

\* postgres_client.get_connection(), lines 91-98
get_connection(r) ==
    /\ task[r] = PIdle
    /\ IF ~initialized
       THEN EnterInitialize(r, "get_connection", initialized, pool)
       ELSE /\ AfterInitialize(r, "get_connection", pool, "none", 0)
            /\ UNCHANGED lock
    /\ UNCHANGED <<conn_string, initialized, pool, pools, made, sinceClose,
                   otherThanPg>>

\* `async with self._initialization_lock` lets the waiting task in
LockAcquired(r) ==
    /\ task[r].pc = "lock" /\ lock = Unlocked
    /\ IF initialized
       THEN /\ AfterInitialize(r, task[r].within, pool, "already", 0)
            /\ UNCHANGED lock
       ELSE IF conn_string = ""
       THEN /\ AfterInitialize(r, task[r].within, pool, "empty", 0)
            /\ UNCHANGED lock
       ELSE /\ task' = [task EXCEPT ![r].pc = "creating"]
            /\ last' = Pg(task[r].within, "attempts", 0, "")
            /\ lock' = r
    /\ UNCHANGED <<conn_string, initialized, pool, pools, made, sinceClose,
                   otherThanPg>>

\* asyncpg.create_pool returns a pool: lines 60-69
PoolCreated(r) ==
    /\ task[r].pc = "creating" /\ made < MaxPools
    /\ made' = made + 1
    /\ sinceClose' = sinceClose + 1
    /\ pools' = pools \cup {made'}
    /\ pool' = made'
    /\ initialized' = TRUE
    /\ lock' = Unlocked
    /\ AfterInitialize(r, task[r].within, made', "ok", task[r].attempt + 1)
    /\ UNCHANGED <<conn_string, otherThanPg>>

\* asyncpg.create_pool raises: lines 70-77
PoolRefused(r) ==
    /\ task[r].pc = "creating"
    /\ IF RetryAfter(task[r].attempt)
       THEN /\ task' = [task EXCEPT ![r].pc = "sleeping"]
            /\ last' = Pg(task[r].within, "sleeps", task[r].attempt + 1, "")
            /\ UNCHANGED lock
       ELSE /\ lock' = Unlocked
            /\ AfterInitialize(r, task[r].within, pool, "failed",
                               task[r].attempt + 1)
    /\ UNCHANGED <<conn_string, initialized, pool, pools, made, sinceClose,
                   otherThanPg>>

\* asyncio.sleep(retry_delay) is over: the next turn of the loop
Slept(r) ==
    /\ task[r].pc = "sleeping"
    /\ task' = [task EXCEPT ![r].pc = "creating", ![r].attempt = @ + 1]
    /\ last' = Pg(task[r].within, "attempts", task[r].attempt + 1, "")
    /\ UNCHANGED <<conn_string, initialized, pool, lock, pools, made,
                   sinceClose, otherThanPg>>

\* self.pool.acquire() hands out a connection, which is yielded
Acquired(r) ==
    /\ task[r].pc = "acquiring" /\ task[r].ref \in pools
    /\ task' = [task EXCEPT ![r].pc = "using"]
    /\ last' = Pg("get_connection", "none", 0, "connection")
    /\ UNCHANGED <<conn_string, initialized, pool, lock, pools, made,
                   sinceClose, otherThanPg>>

\* The block under get_connection ends, or acquire or the block raises
\* anything but PostgresConnectionError
Released(r, exc) ==
    /\ task[r].pc \in {"acquiring", "using"}
    /\ task[r].pc = "acquiring" => exc # ""
    /\ task' = [task EXCEPT ![r] = PIdle]
    /\ last' = Pg("get_connection", "none", 0, exc)
    /\ UNCHANGED <<conn_string, initialized, pool, lock, pools, made,
                   sinceClose, otherThanPg>>

\* acquire or the block raises PostgresConnectionError: lines 100-103, into
\* close; with no pool set close returns at once and initialize follows
ConnectionLost(r) ==
    /\ task[r].pc \in {"acquiring", "using"}
    /\ sinceClose' = 0
    /\ IF pool # NoPool
       THEN /\ task' = [task EXCEPT ![r] = [pc |-> "closing",
                                            within |-> "recover",
                                            attempt |-> 0, ref |-> pool]]
            /\ last' = Pg("get_connection", "none", 0, "close")
            /\ UNCHANGED lock
       ELSE EnterInitialize(r, "recover", initialized, pool)
    /\ UNCHANGED <<conn_string, initialized, pool, pools, made, otherThanPg>>

\* self.pool.close() is over: lines 83-84, then line 104
PoolClosed(r) ==
    /\ task[r].pc = "closing"
    /\ pools' = pools \ {task[r].ref}
    /\ pool' = NoPool
    /\ initialized' = FALSE
    /\ EnterInitialize(r, "recover", FALSE, NoPool)
    /\ UNCHANGED <<conn_string, made, sinceClose, otherThanPg>>

\* -------------------------------------------------- document repository
MaxDocs == 2

\* The settings of the deployment, and the IV Fernet draws
DocSettings == [OPENAI_API_KEY |-> "sk-a"]
DocIVs == {1}

\* A row of table documents: owner_wallet is NullStr when there is none, and
\* tree (JSONB) is None, a JSON string or a JSON object
DocumentRow(id, owner_wallet, status, tree) ==
    [id |-> id, owner_wallet |-> owner_wallet, status |-> status,
     tree |-> tree]

\* str(exc) as `error_message`, and error_message=None
NoMessage == PyNone
ErrorTree(error_message) == PyDict(<< <<"error", error_message>> >>)

\* update_after_indexing, lines 97-111: the tree the update carries, PyNone
\* when it carries none
UpdatesTree(tree, error_message, owner_wallet, iv) ==
    IF tree.t # "none" /\ owner_wallet # EmptyStr
    THEN PyText(EncryptTree(tree, owner_wallet, DocSettings, iv))
    ELSE IF tree.t # "none" THEN tree
    ELSE IF error_message.t # "none" THEN ErrorTree(error_message)
    ELSE PyNone

\* update_after_indexing: the table after it and the row it returns; the
\* update reaches the row (applied), or the response carries an error or no
\* row and nothing is returned
UpdateAfterIndexing(tbl, document_id, status, tree, error_message, owner_wallet, iv, applied) ==
    LET rows == {d \in tbl : d.id = document_id}
        new_tree == UpdatesTree(tree, error_message, owner_wallet, iv)
    IN  IF ~applied \/ rows = {} THEN [tbl |-> tbl, out |-> Returns(PyNone)]
        ELSE LET row == CHOOSE d \in rows : TRUE
                 updated == [row EXCEPT !.status = status,
                                        !.tree = IF new_tree.t = "none"
                                                 THEN @ ELSE new_tree]
             IN  [tbl |-> (tbl \ {row}) \cup {updated},
                  out |-> NormalizeDocumentResult(updated, owner_wallet,
                                                  DocSettings)]

\* `if not updated`, `if not doc`: a row came back
IsRow(v) == "id" \in DOMAIN v

\* .eq("owner_wallet", wallet), with and without .eq("id", document_id)
ListForOwnerRows(tbl, wallet) == {d \in tbl : d.owner_wallet = wallet}
GetByIdRows(tbl, document_id, wallet) == {d \in tbl : d.id = document_id}
GetByIdForOwnerRows(tbl, document_id, wallet) ==
    {d \in tbl : d.id = document_id /\ d.owner_wallet = wallet}

\* list_for_owner: the rows, each normalised with the wallet
ListForOwner(tbl, owner_wallet) ==
    LET wallet == Lower(owner_wallet)
    IN  {NormalizeDocumentResult(d, wallet, DocSettings).value :
            d \in ListForOwnerRows(tbl, wallet)}

\* get_by_id_for_owner: the row normalised with the wallet, or None
GetByIdForOwner(tbl, document_id, owner_wallet) ==
    LET wallet == Lower(owner_wallet)
        rows == GetByIdForOwnerRows(tbl, document_id, wallet)
    IN  IF rows = {} THEN PyNone
        ELSE NormalizeDocumentResult(CHOOSE d \in rows : TRUE, wallet,
                                     DocSettings).value

\* ----------------------------------------------------- routers/documents
\* What generate_tree_from_pdf returns, or the text of what it raises
IndexTrees == {PyDict(<<>>), PyDict(<< <<"a", PyInt(1)>> >>)}
IndexErrors == {PyStr("boom")}
DocWallets == {Lower(AliceAddr), Lower(BobAddr)}

\* upload_document up to the indexing: the record is created in status
\* "indexing" for the lowercased wallet of the token
UploadCreate(r, current_wallet) ==
    /\ dreq[r].pc = "idle"
    /\ Cardinality(docs) < MaxDocs
    /\ LET id == Cardinality(docs) + 1
       IN  /\ docs' = docs \cup {DocumentRow(id, Lower(current_wallet),
                                             "indexing", PyNone)}
           /\ dreq' = [dreq EXCEPT ![r] = [pc |-> "indexing", id |-> id,
                                           wallet |-> current_wallet,
                                           error |-> ""]]
    /\ last' = [op |-> "create_document"]
    /\ UNCHANGED otherThanDocs

\* generate_tree_from_pdf raised: on to the `except Exception` branch
UploadIndexingRaised(r, exc) ==
    /\ dreq[r].pc = "indexing"
    /\ dreq' = [dreq EXCEPT ![r].pc = "failed", ![r].error = exc.s]
    /\ last' = [op |-> "indexing_raised"]
    /\ UNCHANGED <<docs, otherThanDocs>>

\* generate_tree_from_pdf returned: update_after_indexing(status="ready").
\* Nothing returned is a 500 that `except HTTPException: raise` lets through;
\* DocumentResponse(**updated) returns (valid), or raises ValidationError for
\* a row without the fields the schema requires, on to `except Exception`
UploadIndexed(r, tree, iv, applied, valid) ==
    /\ dreq[r].pc = "indexing"
    /\ LET upd == UpdateAfterIndexing(docs, dreq[r].id, "ready", tree,
                                      NoMessage, dreq[r].wallet, iv, applied)
       IN  /\ docs' = upd.tbl
           /\ IF ~IsRow(upd.out.value)
              THEN /\ dreq' = [dreq EXCEPT ![r] = DIdle]
                   /\ last' = [op |-> "upload", id |-> dreq[r].id,
                               status |-> 500,
                               detail |-> "Failed to update document"]
              ELSE IF valid
              THEN /\ dreq' = [dreq EXCEPT ![r] = DIdle]
                   /\ last' = [op |-> "upload", id |-> dreq[r].id,
                               status |-> 201, detail |-> ""]
              ELSE /\ dreq' = [dreq EXCEPT ![r].pc = "failed",
                                           ![r].error = "ValidationError"]
                   /\ last' = [op |-> "update_ready"]
    /\ UNCHANGED otherThanDocs

\* `except Exception`: update_after_indexing(status="failed",
\* error_message=str(exc)), then the 500
UploadFailed(r, applied) ==
    /\ dreq[r].pc = "failed"
    /\ docs' = UpdateAfterIndexing(docs, dreq[r].id, "failed", PyNone,
                                   PyStr(dreq[r].error), EmptyStr, 1,
                                   applied).tbl
    /\ dreq' = [dreq EXCEPT ![r] = DIdle]
    /\ last' = [op |-> "upload", id |-> dreq[r].id, status |-> 500,
                detail |-> "PageIndex indexing failed"]
    /\ UNCHANGED otherThanDocs

\* A record of no wallet, its tree stored as it is ("for backward
\* compatibility")
LegacyDocument(tree) ==
    /\ Cardinality(docs) < MaxDocs
    /\ LET id == Cardinality(docs) + 1
           created == docs \cup {DocumentRow(id, NullStr, "pending", PyNone)}
       IN  docs' = UpdateAfterIndexing(created, id, "ready", tree, NoMessage,
                                       EmptyStr, 1, TRUE).tbl
    /\ last' = [op |-> "legacy_document"]
    /\ UNCHANGED <<dreq, otherThanDocs>>

\* GET /documents/: the records listed (`seen` is the ids of the rows read)
list_documents(current_wallet) ==
    /\ last' = [op |-> "list_documents", wallet |-> current_wallet,
                status |-> 200,
                seen |-> {d.id : d \in ListForOwner(docs, current_wallet)},
                items |-> ListForOwner(docs, current_wallet)]
    /\ UNCHANGED <<docVars, otherThanDocs>>

\* GET /documents/{document_id}
get_document(document_id, wallet) ==
    /\ LET doc == GetByIdForOwner(docs, document_id, wallet)
       IN  last' = [op |-> "get_document", wallet |-> wallet,
                    id |-> document_id,
                    status |-> IF ~IsRow(doc) THEN 404 ELSE 200,
                    seen |-> IF ~IsRow(doc) THEN {} ELSE {doc.id},
                    items |-> IF ~IsRow(doc) THEN {} ELSE {doc}]
    /\ UNCHANGED <<docVars, otherThanDocs>>

\* POST /chat/: `items` is what answer_question_over_tree is given
chat(document_id, wallet) ==
    /\ LET doc == GetByIdForOwner(docs, document_id, wallet)
           ready == IsRow(doc) /\ doc.status = "ready" /\ ~Falsy(doc.tree)
       IN  last' = [op |-> "chat", wallet |-> wallet, id |-> document_id,
                    status |-> IF ~IsRow(doc) THEN 404
                               ELSE IF ready THEN 200 ELSE 400,
                    seen |-> IF ~IsRow(doc) THEN {} ELSE {doc.id},
                    items |-> IF ready THEN {doc} ELSE {}]
    /\ UNCHANGED <<docVars, otherThanDocs>>

\* ----------------------------------------------------- specifications
\* The login protocol with two verify_signature requests in flight at once,
\* for wallets in any casing, next to password registrations.
Next ==
    \/ \E w \in WalletInputs : create_nonce(w)
    \/ \E w \in WalletInputs : \E s \in Signatures(w) : VerifyReject(w, s)
    \/ \E r \in Reqs, w \in WalletInputs : \E s \in Signatures(w) :
          VerifyAccept(r, w, s)
    \/ \E r \in Reqs : VerifyFind(r)
    \/ \E r \in Reqs : VerifyCreate(r)
    \/ \E r \in Reqs : VerifyCreateFails(r)
    \/ \E r \in Reqs : VerifyConsume(r)
    \/ \E u \in Registrations : create_user(u.wallet_address, u.username, "pw")

Spec == Init /\ [][Next]_vars

\* One client logging in and using its credential while the clock runs.
ClockNext ==
    \/ \E d \in Delays : Advance(d)
    \/ create_nonce(AliceAddr)
    \/ \E s \in Signatures(AliceAddr) : VerifyReject(AliceAddr, s)
    \/ \E s \in Signatures(AliceAddr) : VerifyAccept("r1", AliceAddr, s)
    \/ VerifyFind("r1")
    \/ VerifyCreate("r1")
    \/ VerifyConsume("r1")
    \/ \E u \in users : delete_user(u.id)
    \/ \E t \in BearerTokens : Authenticate(t)

ClockSpec == Init /\ [][ClockNext]_vars

\* Two wallets logging in side by side, two verify_signature requests in
\* flight at once.
PairWallets == {Lower(AliceAddr), Lower(BobAddr)}

PairNext ==
    \/ \E w \in PairWallets : create_nonce(w)
    \/ \E w \in PairWallets : \E s \in Signatures(w) : VerifyReject(w, s)
    \/ \E r \in Reqs, w \in PairWallets : \E s \in Signatures(w) :
          VerifyAccept(r, w, s)
    \/ \E r \in Reqs : VerifyFind(r)
    \/ \E r \in Reqs : VerifyCreate(r)
    \/ \E r \in Reqs : VerifyCreateFails(r)
    \/ \E r \in Reqs : VerifyConsume(r)

PairSpec == Init /\ [][PairNext]_vars

\* The tree sealing service, call by call
SealNext ==
    \/ \E tree \in Trees, w \in SealWallets, w2 \in SealWallets,
          settings \in SettingsSet, iv \in IVs :
          SealOpen(tree, w, w2, settings, iv)
    \/ \E w \in SealWallets, settings \in SettingsSet : Derive(w, settings)
    \/ \E text \in SealedTexts, w \in SealWallets, settings \in SettingsSet :
          Open(text, w, settings)
    \/ \E row \in DocumentRows, w \in SealWallets \cup {EmptyStr},
          settings \in SettingsSet : Normalize(row, w, settings)

SealSpec == Init /\ [][SealNext]_vars

\* The blob store and the anchoring endpoint, call by call
BlobNext ==
    \/ \E data \in Blobs, session \in Sessions, prep_status \in Statuses,
          key_b64 \in NovaKeys, iv \in GcmIVs, fin_status \in Statuses,
          shape \in AnswerShapes :
          nova_upload(data, session, prep_status, key_b64, iv, fin_status,
                      shape)
    \/ \E cid \in 1..MaxBlobs, session \in Sessions, status \in Statuses :
          nova_retrieve(cid, session, status)
    \/ \E result \in Processes : upload_nova_cli(result)

BlobSpec == Init /\ [][BlobNext]_vars

\* The user repository, call by call
RepoNext ==
    \/ \E w \in RepoWallets, n \in RepoUsernames, e \in RepoEmails :
          UserRepository_create(w, n, Bcrypt("pw"), e)
    \/ \E id \in 1..MaxUserIds : UserRepository_find_by_id(id)
    \/ \E n \in RepoUsernames : UserRepository_find_by_username(n)
    \/ \E w \in RepoWallets : UserRepository_find_by_wallet_address(w)
    \/ \E u \in users : delete_user(u.id)

RepoSpec == Init /\ [][RepoNext]_vars

\* update_metadata calls for the users there are, two at a time
MetaNext ==
    \/ \E id \in UserIds, value \in StoredMetadata : InsertMetadata(id, value)
    \/ \E r \in Reqs, id \in UserIds, update \in MetadataUpdates :
          SelectMetadata(r, id, update)
    \/ \E r \in Reqs : UpdateMetadata(r)

MetaSpec == Init /\ [][MetaNext]_vars

\* Vault requests, two at a time
VaultNext ==
    \/ \E r \in Reqs, request \in CreateVaultRequests :
          CreateVaultSelect(r, request)
    \/ \E r \in Reqs, request \in UpdateVaultRequests :
          UpdateVaultSelect(r, request)
    \/ \E r \in Reqs : VaultCommit(r)

VaultSpec == Init /\ [][VaultNext]_vars

\* Uploads, one after the other, and the owner-scoped reads
DocNext ==
    \/ \E w \in DocWallets : UploadCreate("r1", w)
    \/ \E exc \in IndexErrors : UploadIndexingRaised("r1", exc)
    \/ \E tree \in IndexTrees, iv \in DocIVs, applied \in BOOLEAN,
          valid \in BOOLEAN : UploadIndexed("r1", tree, iv, applied, valid)
    \/ \E applied \in BOOLEAN : UploadFailed("r1", applied)
    \/ \E tree \in IndexTrees : LegacyDocument(tree)
    \/ \E w \in DocWallets : list_documents(w)
    \/ \E id \in 1..MaxDocs, w \in DocWallets : get_document(id, w)
    \/ \E id \in 1..MaxDocs, w \in DocWallets : chat(id, w)

DocSpec == Init /\ [][DocNext]_vars

\* Two _get_session_token calls at a time, the clock moving on
TokenNext ==
    \/ \E d \in TokenDelays : Advance(d)
    \/ \E r \in Reqs : SessionTokenStart(r)
    \/ \E r \in Reqs, answer \in AuthAnswers : SessionTokenAnswer(r, answer)

TokenSpec == Init /\ [][TokenNext]_vars

\* Two tasks on the one client
PgNext ==
    \/ \E dsn \in ConnStrings : Construct(dsn)
    \/ \E r \in Reqs : initialize(r)
    \/ \E r \in Reqs : get_connection(r)
    \/ \E r \in Reqs : LockAcquired(r)
    \/ \E r \in Reqs : PoolCreated(r)
    \/ \E r \in Reqs : PoolRefused(r)
    \/ \E r \in Reqs : Slept(r)
    \/ \E r \in Reqs : Acquired(r)
    \/ \E r \in Reqs, exc \in {"", "Exception"} : Released(r, exc)
    \/ \E r \in Reqs : ConnectionLost(r)
    \/ \E r \in Reqs : PoolClosed(r)

PgSpec == Init /\ [][PgNext]_vars

\* A wallet login that provisions its user, registrations with a password,
\* and password logins, two at a time
LoginNext ==
    \/ create_nonce(AliceAddr)
    \/ \E s \in Signatures(AliceAddr) : VerifyAccept("r1", AliceAddr, s)
    \/ VerifyFind("r1")
    \/ VerifyCreate("r1")
    \/ VerifyConsume("r1")
    \/ \E u \in Registrations : create_user(u.wallet_address, u.username, "pw")
    \/ \E r \in Reqs, n \in LoginNames, pw \in LoginPasswords :
          LoginByUsername(r, n, pw)
    \/ \E r \in Reqs : LoginByWallet(r)
    \/ \E r \in Reqs : LoginUpdate(r)

LoginSpec == Init /\ [][LoginNext]_vars

\* ================================================================ claims
TokenLife == Seconds(TOKEN_HOURS * 3600)
NonceLife == Seconds(NONCE_TTL_SECONDS)

\* last is a verify_signature call at the point where its checks are decided
VerifyDecided == last.op = "verify" /\ last.status \in {0, 400}

\* C1: single-use nonce.  After a verify succeeded for a wallet, and while no
\* create_nonce was called for that wallet since, a verify call for the wallet
\* with the same signature is rejected with "Nonce not found" and carries no
\* credential.
C1_SingleUseNonce ==
    (/\ VerifyDecided
     /\ last.wallet \in DOMAIN lastOk
     /\ last.sig = lastOk[last.wallet])
    => (/\ last.status = 400
        /\ last.detail = "Nonce not found"
        /\ last.token = NoToken)

\* A replay of the signature that has just logged the wallet in was rejected.
C1_Witness ==
    /\ VerifyDecided
    /\ last.wallet \in DOMAIN lastOk
    /\ last.sig = lastOk[last.wallet]
    /\ last.sig.wf
    /\ last.detail = "Nonce not found"

\* C2: a nonce satisfies at most one verification, under every interleaving:
\* no nonce has more than one credential issued on it.
C2_OneCredentialPerNonce == \A n \in DOMAIN uses : uses[n] <= 1

\* The wallet's stored nonce is unexpired at time t, and the address recovered
\* from sig over the login message of the wallet and that nonce is the wallet.
LoginValid(wallet, sig, t) ==
    \E row \in nonces :
        /\ row.wallet_address = wallet
        /\ t <= row.t0 + NonceLife
        /\ Lower(RecoverMessage(BuildLoginMessage(wallet, row.nonce), sig)) = wallet

\* The wallet's own signature over the login message of its stored nonce
StoredNonceSigned(wallet, sig) ==
    \E row \in nonces :
        /\ row.wallet_address = wallet
        /\ sig = Sign(KeyOf(wallet), BuildLoginMessage(wallet, row.nonce))

\* C3: a verify call for a wallet whose nonce was issued more than
\* NONCE_TTL_SECONDS ago is rejected as expired and carries no credential,
\* whatever the signature, the correct one included.
C3_ExpiredNonceRejected ==
    (/\ VerifyDecided
     /\ \E row \in nonces : /\ row.wallet_address = last.wallet
                            /\ now > row.t0 + NonceLife)
    => (/\ last.status = 400
        /\ last.detail = "Nonce expired"
        /\ last.token = NoToken)

\* The correct signature was presented after the nonce's lifetime and rejected.
C3_Witness ==
    /\ VerifyDecided
    /\ StoredNonceSigned(last.wallet, last.sig)
    /\ \E row \in nonces : /\ row.wallet_address = last.wallet
                           /\ now > row.t0 + NonceLife
    /\ last.status = 400

\* C4: a verify call passes its checks exactly when the wallet has a stored,
\* unexpired nonce and the address recovered from the signature over the login
\* message of the wallet and that nonce is the wallet; a credential is issued
\* only on a signature that recovers to the wallet over the message of the
\* nonce the call loaded; a rejected call carries no credential.
C4_MintOnlyOnValidLogin ==
    /\ (VerifyDecided /\ last.status = 0)
          => /\ LoginValid(last.wallet, last.sig, now)
             /\ \E row \in nonces : /\ row.wallet_address = last.wallet
                                    /\ row.nonce = last.nonce
    /\ (VerifyDecided /\ last.status = 400)
          => /\ ~LoginValid(last.wallet, last.sig, now)
             /\ last.token = NoToken
    /\ (last.op = "verify" /\ last.status = 200)
          => /\ Lower(RecoverMessage(BuildLoginMessage(last.wallet, last.nonce),
                                     last.sig)) = last.wallet
             /\ last.token.sub = last.wallet

\* Another key holder's signature over the wallet's login message was rejected
\* while the wallet's nonce was stored and unexpired.
C4_Witness ==
    /\ VerifyDecided
    /\ last.status = 400
    /\ last.sig.wf
    /\ last.sig.signer = OtherKey(last.wallet)
    /\ \E row \in nonces : /\ row.wallet_address = last.wallet
                           /\ last.sig.msg = BuildLoginMessage(last.wallet, row.nonce)
                           /\ now <= row.t0 + NonceLife

\* C5: the nonce table holds at most one row per wallet, keyed by the
\* lowercased address; the row carries the nonce issued last to the wallet; a
\* verify call passes only on the nonce issued last, and a signature over an
\* earlier nonce of the wallet is rejected.
C5_NewestNonceOnly ==
    /\ \A x, y \in nonces : x.wallet_address = y.wallet_address => x = y
    /\ \A x \in nonces : /\ x.wallet_address = Lower(x.wallet_address)
                         /\ x.wallet_address \in DOMAIN latest
                         /\ x.nonce = latest[x.wallet_address]
    /\ (VerifyDecided /\ last.status = 0) => last.nonce = latest[last.wallet]
    /\ (/\ VerifyDecided
        /\ \E n \in DOMAIN uses :
              /\ n # latest[last.wallet]
              /\ last.sig = Sign(KeyOf(last.wallet),
                                 BuildLoginMessage(last.wallet, n)))
       => last.status = 400

\* After two create_nonce calls for the wallet, its signature over the first
\* nonce was rejected while the second nonce was stored.
C5_Witness ==
    /\ VerifyDecided
    /\ last.status = 400
    /\ \E row \in nonces : /\ row.wallet_address = last.wallet
                           /\ row.nonce = 2
    /\ last.sig = Sign(KeyOf(last.wallet), BuildLoginMessage(last.wallet, 1))

\* C6: a verify call whose signature passed the checks (the wallet's
\* signature over the lowercased login message of its current nonce) returns a
\* bearer token, and get_current_wallet on that token returns the lowercased
\* form of the address the client sent.
C6_LoginEndToEnd ==
    (last.op = "verify" /\ last.status \in {200, 500})
    => (/\ last.status = 200
        /\ GetCurrentWallet(last.token, now) =
              [status |-> 200, detail |-> "", wallet |-> Lower(last.wallet_in)])

\* C7: every failed verify call gets the response a call for a wallet without
\* a nonce gets, whatever the cause of the failure.
C7_UniformRejection ==
    (last.op = "verify" /\ last.status = 400)
    => last.detail = Reject("Nonce not found").detail

\* C8: get_current_wallet returns a wallet exactly for a well-formed token
\* signed with the server secret, whose exp lies in the future and whose sub is
\* present and non-empty, and the wallet is the lowercased sub; a token with a
\* bad format or signature, with an exp that is past, or without a (non-empty)
\* sub gets a 401 and no wallet.
C8_WalletOnlyFromValidToken ==
    last.op = "auth" =>
        LET t == last.token
            genuine == t.wf /\ t.key = ServerSecret
            subject == t.hasSub /\ t.sub # EmptyStr
            fresh == t.hasExp => now < Seconds(t.exp)
            past == t.hasExp /\ now > Seconds(t.exp)
        IN  /\ (genuine /\ subject /\ fresh)
                  => /\ last.status = 200
                     /\ last.wallet = Lower(t.sub)
            /\ (~genuine \/ ~subject \/ past)
                  => /\ last.status = 401
                     /\ last.wallet = EmptyStr
            /\ last.status \in {200, 401}

\* A genuine, unexpired token with a mixed-case sub was accepted and its
\* lowercased sub returned.
C8_Witness ==
    /\ last.op = "auth"
    /\ last.status = 200
    /\ last.token.sub # Lower(last.token.sub)
    /\ last.wallet = Lower(last.token.sub)

\* The credential h answers get_current_wallet with its wallet at time t
Accepted(h, t) ==
    GetCurrentWallet(h.token, t) =
        [status |-> 200, detail |-> "", wallet |-> h.token.sub]

\* C9 as stated: a credential issued at time h.at is accepted at every time
\* before h.at + 12 h and rejected at every time after it.
C9_TwelveHoursFromIssue ==
    \A h \in held :
        /\ now < h.at + TokenLife => Accepted(h, now)
        /\ now > h.at + TokenLife => GetCurrentWallet(h.token, now).status = 401

\* C9: a credential issued at time h.at is accepted at every time before the
\* whole second of h.at plus 12 h and rejected from that instant on, whatever
\* create_nonce, verify_signature and user deletions happened since.
C9_TwelveHoursFromWholeSecond ==
    \A h \in held :
        LET exp == Seconds(Timegm(h.at)) + TokenLife
        IN  /\ now < exp => Accepted(h, now)
            /\ now >= exp => GetCurrentWallet(h.token, now).status = 401

\* The held credential was accepted after the wallet's user record was deleted
\* and a new nonce was issued to the wallet.
C9_Witness ==
    /\ last.op = "auth"
    /\ last.status = 200
    /\ \E h \in held :
          /\ last.token = h.token
          /\ FindByWalletAddress(users, h.token.sub) = {}
          /\ \E row \in nonces : /\ row.wallet_address = h.token.sub
                                 /\ row.t0 >= h.at
          /\ now > h.at

\* C10: after a successful verify for a wallet exactly one user record has its
\* wallet_address, and no verify whose signature passed the checks fails while
\* the record of its wallet exists.
C10_ProvisioningIdempotent ==
    /\ (last.op = "verify" /\ last.status = 200)
          => Cardinality(FindByWalletAddress(users, last.wallet)) = 1
    /\ ~(/\ last.op = "verify"
         /\ last.status = 500
         /\ FindByWalletAddress(users, last.wallet) # {})

\* The rows of wallet w in the nonce table
RowsOf(tbl, w) == {row \in tbl : row.wallet_address = w}

\* C11: whatever calls for other wallets are interleaved, the nonce rows of
\* a wallet are the rows the calls for that wallet alone produce, and a verify
\* call for the wallet is decided as it is on the table those calls alone
\* produce.
C11_NoCrossWalletInterference ==
    /\ \A w \in PairWallets :
          RowsOf(nonces, w) = IF w \in DOMAIN solo THEN solo[w] ELSE {}
    /\ VerifyDecided =>
          LET own == IF last.wallet \in DOMAIN solo THEN solo[last.wallet] ELSE {}
              res == VerifyChecks(last.wallet_in, last.sig, own, now)
          IN  /\ last.status = res.status
              /\ last.detail = res.detail
              /\ last.nonce = res.nonce

\* A verify call for one wallet passed its checks after the other wallet was
\* issued a nonce, logged in and had its nonce row deleted.
C11_Witness ==
    /\ VerifyDecided
    /\ last.status = 0
    /\ \E w \in PairWallets :
          /\ w # last.wallet
          /\ w \in DOMAIN lastOk
          /\ w \in DOMAIN solo
          /\ solo[w] = {}
          /\ latest[w] > latest[last.wallet]

\* C12 as stated: for every tree, decrypt_tree of encrypt_tree's result gives
\* the tree back under a wallet that lowercases to the sealing wallet, and
\* None under every other wallet.
C12_RoundTripEveryTree ==
    last.op = "seal_open" =>
        /\ last.out.exc = ""
        /\ Lower(last.wallet2) = Lower(last.wallet) => last.out.value = last.tree
        /\ Lower(last.wallet2) # Lower(last.wallet) => last.out.value = PyNone

\* C12: for every non-empty tree, decrypt_tree of encrypt_tree's result gives
\* the tree back under a wallet that lowercases to the sealing wallet, and
\* None under every other wallet; the empty tree is sealed to the empty
\* string, which decrypt_tree answers with None for every wallet.
C12_RoundTripNonEmptyTree ==
    last.op = "seal_open" =>
        /\ last.out.exc = ""
        /\ IF Falsy(last.tree)
           THEN /\ last.sealed = EmptyStr
                /\ last.out.value = PyNone
           ELSE /\ last.sealed # EmptyStr
                /\ Lower(last.wallet2) = Lower(last.wallet)
                      => last.out.value = last.tree
                /\ Lower(last.wallet2) # Lower(last.wallet)
                      => last.out.value = PyNone

\* A nested tree sealed under the checksum-cased address was opened under the
\* lowercased one.
C12_Witness ==
    /\ last.op = "seal_open"
    /\ last.wallet # last.wallet2
    /\ Lower(last.wallet) = Lower(last.wallet2)
    /\ Len(last.tree.items) > 1
    /\ last.out.value = last.tree

\* C13: the key derived for a wallet under a secret is the key derived for
\* every spelling of that wallet under that secret, and differs from the key
\* derived for the wallet under any other secret.
C13_DeterministicDerivation ==
    last.op = "derive" =>
        \A w2 \in SealWallets, s2 \in SettingsSet :
            /\ (Lower(w2) = Lower(last.wallet) /\ s2 = last.settings)
                  => DeriveEncryptionKey(w2, s2) = last.out
            /\ SecretOf(s2) # SecretOf(last.settings)
                  => DeriveEncryptionKey(last.wallet, s2) # last.out

\* A key was derived for a mixed-case address under a non-empty secret.
C13_Witness ==
    /\ last.op = "derive"
    /\ last.wallet # Lower(last.wallet)
    /\ SecretOf(last.settings) # ""
    /\ last.out.exc = ""

\* C14: with the server secret unset, key derivation raises, and encrypt_tree
\* returns no ciphertext.
C14_UnsetSecretFails ==
    /\ (last.op = "derive" /\ SecretOf(last.settings) = "")
          => last.out.exc # ""
    /\ (last.op = "seal_open" /\ SecretOf(last.settings) = "")
          => last.sealed = EmptyStr

\* The row holds the plain JSON text of a tree
LegacyRow(row) ==
    /\ "tree" \in DOMAIN row
    /\ row.tree.t = "text"
    /\ \E tree \in Trees : row.tree.text = JsonDumps(tree)

\* C15: given a row whose tree is the plain JSON text of a tree T,
\* _normalize_document_result returns the row with T as its tree and does not
\* raise, with an owner wallet and without one.
C15_LegacyFallback ==
    (last.op = "normalize" /\ LegacyRow(last.row)) =>
        /\ last.out.exc = ""
        /\ last.out.value.tree \in Trees
        /\ JsonDumps(last.out.value.tree) = last.row.tree.text
        /\ last.out.value.id = last.row.id

\* Plain JSON text was normalised with an owner wallet: decrypt_tree gave None
\* and the parse gave the tree.
C15_Witness ==
    /\ last.op = "normalize"
    /\ LegacyRow(last.row)
    /\ last.wallet # EmptyStr
    /\ DecryptTree(last.row.tree.text, last.wallet, last.settings) = Returns(PyNone)
    /\ last.out.value.tree.t = "dict"
    /\ last.out.value.tree.items # <<>>

\* C16: decrypt_tree raises nothing, and returns something other than None
\* only for a token whose tag verifies under the key derived for the wallet.
C16_DecryptNeverRaises ==
    last.op = "open" =>
        /\ last.out.exc = ""
        /\ last.out.value # PyNone =>
              /\ Len(last.text) = 1
              /\ last.text[1].k = "b64"
              /\ last.text[1].of.b = "fernet"
              /\ last.text[1].of.tag
              /\ last.text[1].of.key =
                    [password |-> Lower(last.wallet),
                     salt |-> GetEncryptionSalt(last.settings)]

\* A token with a valid tag whose payload is no JSON was answered with None.
C16_Witness ==
    /\ last.op = "open"
    /\ last.text # EmptyStr
    /\ DecryptTry(last.text, last.wallet, last.settings).exc = "JSONDecodeError"
    /\ last.out = Returns(PyNone)

\* The anchoring call failed: the process did not start, exited non-zero, or
\* printed nothing the id can be parsed from
AnchoringFailed(proc) ==
    \/ proc.raised # ""
    \/ proc.returncode # 0
    \/ ReSearch(proc.stderr) = <<>>

\* C17: retrieving the blob stored for bytes B returns exactly B, and a
\* failure of the anchoring step (process error, non-zero exit, unparsable
\* output) does not fail the request: its result carries the content
\* identifier and a failure marker in place of a transaction id.
C17_StoreSurvivesAnchoringFailure ==
    /\ (last.op = "retrieve" /\ last.out.exc = "") =>
          \E b \in nova : b.cid = last.cid /\ b.plain = last.out.value
    /\ (last.op = "anchor" /\ AnchoringFailed(last.proc)) =>
          /\ last.out.status = 200
          /\ "cid" \in DOMAIN last.out

\* The IV inside a stored payload
IvOf(b) == b.encrypted_b64[1].of.iv

MarkedId(text, tx) ==
    /\ tx # <<>>
    /\ \A j \in DOMAIN tx : tx[j] \in AlnumChars
    /\ \E i \in DOMAIN text :
          /\ text[i] = Marker
          /\ i + Len(tx) <= Len(text)
          /\ SubSeq(text, i + 1, i + Len(tx)) = tx

HasMarkedId(text) ==
    \E i \in DOMAIN text :
        text[i] = Marker /\ i < Len(text) /\ text[i + 1] \in AlnumChars

\* C19: upload_nova_cli returns a transactionHash only when the CLI exited
\* with code 0 and the id follows the marker "Transaction ID: " in its
\* stderr; a zero exit without a marked id, and every non-zero exit, gives an
\* error with no transaction id and no explorer link.
C19_NoGuessedTransactionId ==
    last.op = "anchor" =>
        LET proc == last.proc
            out == last.out
        IN  /\ "transactionHash" \in DOMAIN out =>
                  /\ proc.raised = ""
                  /\ proc.returncode = 0
                  /\ MarkedId(proc.stderr, out.transactionHash)
            /\ (proc.raised # "" \/ proc.returncode # 0
                  \/ ~HasMarkedId(proc.stderr)) =>
                  /\ out.status = 500
                  /\ DOMAIN out \cap {"transactionHash", "blockscanUrl"} = {}

\* The CLI exited with 0 and the id after the second marker was returned,
\* the first marker having none
C19_Witness ==
    /\ last.op = "anchor"
    /\ last.proc.returncode = 0
    /\ last.proc.stderr = <<Marker, "\n", Marker, "a">>
    /\ last.out.status = 200
    /\ last.out.transactionHash = <<"a">>

\* A record of the table that already has one of the three values
Taken(tbl, wallet_address, username, email) ==
    \E u \in tbl :
        \/ u.wallet_address = wallet_address
        \/ u.username = username
        \/ email # NullStr /\ u.email = email

AlreadyExists ==
    {"Wallet address already exists", "Username already exists",
     "Email already exists"}

\* C20: after UserRepository.create succeeds, find_by_id, find_by_username
\* and find_by_wallet_address each return the record create returned; create
\* with a wallet_address, username or email that is already in the table
\* raises ValueError with an "already exists" message and leaves the table as
\* it was.
C20_CreateThenFind ==
    /\ (last.op = "create" /\ last.exc = "") =>
          /\ FetchRow(FindById(users, last.out.id)) = last.out
          /\ FetchRow(FindByUsername(users, last.username)) = last.out
          /\ FetchRow(FindByWalletAddress(users, last.wallet)) = last.out
    /\ (last.op = "create"
          /\ Taken(last.before, last.wallet, last.username, last.email)) =>
          /\ last.exc = "ValueError"
          /\ last.msg \in AlreadyExists
          /\ users = last.before
    /\ (last.op = "find_by_id" /\ "id" \in DOMAIN last.out) =>
          last.out.id = last.id
    /\ (last.op = "find_by_username" /\ "id" \in DOMAIN last.out) =>
          last.out.username = last.username
    /\ (last.op = "find_by_wallet_address" /\ "id" \in DOMAIN last.out) =>
          last.out.wallet_address = last.wallet

\* create was refused for an email another record has, the wallet address
\* and the username being new
C20_Witness ==
    /\ last.op = "create"
    /\ last.exc = "ValueError"
    /\ last.msg = "Email already exists"
    /\ users # {}

\* C21: after update_metadata every key of the update has the update's value
\* and every key stored before it and absent from the update keeps its value,
\* also when two calls on the same user run concurrently.
C21_MetadataMerged ==
    (last.op = "update_metadata" /\ last.found) =>
        LET after == CurrentDict(user_metadata[last.id])
        IN  /\ \A key \in DictKeys(last.update) :
                  /\ key \in DictKeys(after)
                  /\ DictValue(after, key) = DictValue(last.update, key)
            /\ \A key \in DictKeys(last.before) \ DictKeys(last.update) :
                  /\ key \in DictKeys(after)
                  /\ DictValue(after, key) = DictValue(last.before, key)

\* C22: there is at most one vault record for each (lowercased owner_wallet,
\* doc_hash) pair, whatever create_vault and update_vault calls ran and
\* however they interleaved; create_vault that finds the pair updates that
\* record, keeping its toc_signature when the request carries none, and
\* inserts nothing.
C22_OneVaultPerDocPerWallet ==
    /\ \A v1, v2 \in vaults :
          (Lower(v1.owner_wallet) = Lower(v2.owner_wallet)
              /\ v1.doc_hash = v2.doc_hash) => v1 = v2
    /\ (last.op = "create_vault" /\ last.existed) =>
          /\ last.status = 201
          /\ last.out.id = last.held.id
          /\ vaults = (last.before \ {last.held}) \cup {last.out}
          /\ ~Truthy(last.request.toc_signature) =>
                last.out.toc_signature = last.held.toc_signature

\* create_vault for a wallet in another casing and with no signature found
\* the record and left its signature in place
C22_Witness ==
    /\ last.op = "create_vault"
    /\ last.existed
    /\ last.request.owner_wallet # last.out.owner_wallet
    /\ last.request.toc_signature = NoSignature
    /\ last.out.toc_signature = "s1"
    /\ last.out.encrypted_toc # last.held.encrypted_toc

\* C23: a verify call that fails leaves the nonce table and the user table
\* as they were and issues no credential, so that the wallet's signature
\* over its stored nonce still passes the checks while the nonce has not
\* expired; and no step of verify_signature adds a nonce row or changes one.
C23_FailedVerifyChangesNothing ==
    [][/\ (last'.op = "verify" /\ last'.status \in {400, 500}) =>
             /\ nonces' = nonces
             /\ users' = users
             /\ held' = held
             /\ last'.token = NoToken
             /\ \A row \in nonces' :
                   (row.wallet_address = last'.wallet
                       /\ now' <= row.t0 + NonceLife) =>
                   VerifyChecks(last'.wallet_in,
                                Sign(KeyOf(last'.wallet),
                                     BuildLoginMessage(last'.wallet,
                                                       row.nonce)),
                                nonces', now').status = 0
       /\ (last'.op # "nonce") => nonces' \subseteq nonces]_vars

\* A signature of another key holder was rejected while the wallet's nonce
\* was stored and unexpired
C23_Witness ==
    /\ last.op = "verify"
    /\ last.status = 400
    /\ last.detail = "Signature does not match wallet"
    /\ \E row \in nonces : /\ row.wallet_address = last.wallet
                           /\ now <= row.t0 + NonceLife
                           /\ now > row.t0

\* The tree is ciphertext that opens under the wallet's derived key
SealedFor(tree, wallet) ==
    /\ tree.t = "text"
    /\ \/ tree.text = EmptyStr
       \/ DecryptTree(tree.text, wallet, DocSettings).value.t # "none"

\* C24: every document record with an owner_wallet and a tree holds the tree
\* as ciphertext sealed under the owner's derived key, or as the empty
\* sentinel, never as a readable structure, whatever upload_document
\* calls ran and however they ended.
C24_TreeOnlyAsCiphertext ==
    \A d \in docs :
        (d.owner_wallet # NullStr /\ d.tree.t # "none") =>
            SealedFor(d.tree, d.owner_wallet)

\* The record of the request just handled
DocOf(id) == {d \in docs : d.id = id}
Reads == {"list_documents", "get_document", "chat"}

\* C25: list_documents, get_document and chat for wallet w return or use only
\* records whose owner_wallet is w; a record of another wallet, or of none,
\* is answered 404 and its tree is neither opened nor handed to the chat
\* model.
C25_OwnerScoping ==
    last.op \in Reads =>
        /\ \A d \in docs : d.id \in last.seen => d.owner_wallet = last.wallet
        /\ \A item \in last.items : item.owner_wallet = last.wallet
        /\ last.op \in {"get_document", "chat"} =>
              \A d \in DocOf(last.id) :
                  d.owner_wallet # last.wallet =>
                      last.status = 404 /\ last.items = {}

\* chat asked for a ready record that another wallet owns, while the asking
\* wallet has a ready record of its own
C25_Witness ==
    /\ last.op = "chat" /\ last.status = 404
    /\ \E d \in DocOf(last.id) :
          d.owner_wallet \notin {last.wallet, NullStr} /\ d.status = "ready"
              /\ d.tree.t = "text" /\ d.tree.text # EmptyStr
    /\ \E d \in docs : d.owner_wallet = last.wallet /\ d.status = "ready"

\* C27: when an upload_document request that created its record finishes,
\* the record is 'ready' or 'failed', and 'ready' has a tree stored.
C27_LeavesIndexing ==
    last.op = "upload" =>
        \A d \in DocOf(last.id) :
            /\ d.status \in {"ready", "failed"}
            /\ d.status = "ready" => d.tree.t # "none"

\* The answer carries a token and no error status
Granted(answer) == answer.status = 200 /\ answer.token \notin {"<None>", ""}
\* The seconds the answer's token lives
LifeOf(answer) ==
    ParseExpiry(IF answer.expires_in.t = "absent" THEN DefaultExpiry
                ELSE answer.expires_in)

C28_AtMostOnePool ==
    /\ Cardinality(pools) <= 1
    /\ sinceClose <= 1
    /\ initialized => pool # NoPool

\* C29: initialize makes at most 3 create_pool attempts and then returns;
\* when all attempts fail, or the connection string is empty, it returns
\* with initialized false and pool unset, and a get_connection called after
\* that runs initialize again and raises RuntimeError, handing out no
\* connection, as long as the pool is unset.
C29_InitializeGivesUp ==
    /\ \A r \in Reqs :
          task[r].pc \in {"creating", "sleeping"} => task[r].attempt < 3
    /\ last.op = "pg" =>
          /\ last.attempts <= 3
          /\ last.init = "failed" =>
                last.attempts = 3 /\ ~initialized /\ pool = NoPool
          /\ last.init = "empty" =>
                last.attempts = 0 /\ ~initialized /\ pool = NoPool
          /\ (last.call = "get_connection"
                /\ last.out \in {"RuntimeError", "acquire"}) =>
                /\ pool = NoPool <=> last.out = "RuntimeError"
                /\ pool = NoPool => last.init \in {"failed", "empty"}

\* get_connection, called after an initialize that gave up, has made three
\* attempts of its own and raised RuntimeError
C29_Witness ==
    /\ last.op = "pg" /\ last.call = "get_connection"
    /\ last.init = "failed" /\ last.out = "RuntimeError"
    /\ made = 0 /\ conn_string # ""

\* C30: a user that wallet verification provisioned, stored with an empty
\* password_hash, is never authenticated by login_user: whatever the
\* password, the request ends in an error, returns no user data and leaves
\* last_login as it was.
C30_NoPasswordLoginForWalletUser ==
    [][/\ (last'.op = "login" /\ last'.user_data.password_hash = EmptyStr) =>
             /\ last'.status >= 400
             /\ last'.user = PyNone
             /\ last_login' = last_login
       /\ \A r \in Reqs :
             lreq'[r].pc = "update" =>
                 lreq'[r].user_data.password_hash # EmptyStr]_vars

\* login_user with the empty password has found the user that wallet
\* verification provisioned, and has ended
C30_Witness ==
    /\ last.op = "login" /\ last.password = ""
    /\ last.user_data \in users
    /\ last.user_data.password_hash = EmptyStr
    /\ last.user_data.metadata = "auth=wallet"

====
